---- MODULE Spec2Model ----
(***************************************************************************)
(* Verification model of the Dr. Cardio Sonix audio-to-prediction pipeline *)
(* (ebarreto19/cardio-sonix-website).                                      *)
(*                                                                         *)
(*   SpecLoader  : Upload.forward / SafeLoader.forward (audio loading and  *)
(*                 length fixing)                                          *)
(*   SpecSession : logits -> softmax -> argmax -> label decoding, as done  *)
(*                 by PredictionSession.__call__ and BaseWrapper.forward   *)
(*   SpecPage    : one rerun of the Diagnostics page script (routing of    *)
(*                 the audio to the audio-only or the multimodal session,  *)
(*                 the report shown for the predicted label)               *)
(*   SpecPredict : concurrent BaseWrapper.forward calls on the one cached  *)
(*                 wrapper (load, extract, infer; errors; shared weights)  *)
(*   SpecArtifacts : construction of the wrapper, the sessions and the     *)
(*                 tabular preprocessors from files, through the           *)
(*                 st.cache_resource caches                                *)
(*   SpecShapes  : tensor shapes through _conv_shape_info, the Encoder,    *)
(*                 the LSTM module, BaselineRNNModel.forward, the MFCC     *)
(*                 extractors and ETLPipeline.forward                      *)
(*   SpecTabular : TabularPreprocessor.normalize / encode / __call__ on a  *)
(*                 survey record, with the fitted sklearn transformers     *)
(*   SpecAudio   : AudioConvertor.__call__ and AudioRecorder.get_audio:    *)
(*                 temporary files under root_dir, the duration gate       *)
(*   SpecBinding : PredictionSession.__call__ binding the supplied arrays  *)
(*                 to the model's input names                              *)
(***************************************************************************)
EXTENDS Integers, Sequences, FiniteSets, TLC

(***************************************************************************)
(* Bounds of the model                                                     *)
(***************************************************************************)
MaxSampleRate == 3      \* sample rates 1..MaxSampleRate (samples per second)
MaxDuration == 2        \* configured durations 1..MaxDuration (seconds)
MaxWaveLen == 6         \* decoded waveforms hold 0..MaxWaveLen samples
MaxLogit == 2           \* ordinary logits are the integers -MaxLogit..MaxLogit
MaxAudio == 3           \* distinct audio feature arrays the page can be given
MaxForm == 3            \* distinct answers per part of the survey form
MaxCalls == 2           \* predict calls that can be in flight at the same time
MaxWeight == 1          \* each weight of a state dict is in 0..MaxWeight
MaxStat == 1            \* a stored normalisation statistic is in 0..MaxStat
MaxLoads == 2           \* loads of one file that the model follows
MaxKernel == 4          \* kernel_size is in 1..MaxKernel
MaxStride == 2          \* stride is in 1..MaxStride
MaxFeatures == 9        \* in_features / input length is in 1..MaxFeatures
MaxWidth == 2           \* a channel width or layer size is in 1..MaxWidth
MaxBlocks == 2          \* a depth list has 1..MaxBlocks entries
MaxBatch == 2           \* batch size is in 1..MaxBatch
MaxClasses == 2         \* an rnn / decoder layer size is in 1..MaxClasses
MaxMfcc == 3            \* n_mfcc is in 1..MaxMfcc
MaxFrames == 3          \* the number of MFCC frames is in 1..MaxFrames
MaxValue == 1           \* a numeric survey answer is in 0..MaxValue
MaxInputs == 4          \* a session is called with 0..MaxInputs arrays
MaxClock == 2           \* time.time() takes the values 0..MaxClock
MaxAudioDuration == 3   \* recorded and uploaded audio lasts 0..MaxAudioDuration seconds
MaxScale == 2           \* a fitted standard deviation is in 1..MaxScale

\* "not returned yet": a returned tensor always has its channel axis
NoTensor == <<>>

VARIABLES
    loaderCfg,      \* [sample_rate, duration, length]: Upload / SafeLoader attributes
    source,         \* the waveform librosa.load decodes from the current source
    uploadOut,      \* tensor returned by Upload.forward for source (NoTensor: not called yet)
    safeOut,        \* tensor returned by SafeLoader.forward for source (NoTensor: not called yet)
    logits,         \* logits the model produced for the current input, batch axis included
    sessOut,        \* what PredictionSession.__call__ returned for logits
    wrapOut,        \* what BaseWrapper.forward returned for logits
    pageInput,      \* widget values read by the last rerun of the Diagnostics page
    pageCalls,      \* session invocations made by the last rerun, in order
    pageOuts,       \* what predict(audio) returned in the last rerun
    pageReport,     \* what the last rerun showed for the prediction
    sessionCall,    \* the latest direct call of one of the page's sessions
    stateDict,      \* contents of the weights file read by define_model
    model,          \* BaseWrapper.model: the one module shared by all calls
    calls,          \* per caller: the frame of its BaseWrapper.forward call
    fs,             \* artifact files that exist (on disk, on the model hub)
    cache,          \* st.cache_resource: cache key -> object held for it
    loads,          \* per file: how many times it has been loaded so far
    instances,      \* objects whose construction has completed
    lastCtor,       \* the latest construction attempt and how it ended
    uses,           \* objects on which predict / normalize / encode was called
    shapeCall,      \* the latest shape computation: its arguments and result
    tabCall,        \* the latest TabularPreprocessor call: arguments and result
    rootDir,        \* the temporary files under the AudioConvertor's root_dir
    clock,          \* what time.time() returns now
    audioCall       \* the latest AudioConvertor / AudioRecorder call: arguments and result

loaderVars == <<loaderCfg, source, uploadOut, safeOut>>

sessionVars == <<logits, sessOut, wrapOut>>

pageVars == <<pageInput, pageCalls, pageOuts, pageReport, sessionCall>>

predictVars == <<stateDict, model, calls>>

artifactVars == <<fs, cache, loads, instances, lastCtor, uses>>

shapeVars == <<shapeCall>>

tabVars == <<tabCall>>
audioVars == <<rootDir, clock, audioCall>>

\* the variables of the first four specifications
baseVars == <<loaderVars, sessionVars, pageVars, predictVars>>

\* the variables of the specifications defined after SpecPredict
extraVars == <<artifactVars, shapeVars, tabVars, audioVars>>

vars == <<loaderCfg, source, uploadOut, safeOut, logits, sessOut, wrapOut,
          pageInput, pageCalls, pageOuts, pageReport, sessionCall, stateDict, model, calls,
          fs, cache, loads, instances, lastCtor, uses, shapeCall, tabCall,
          rootDir, clock, audioCall>>

(***************************************************************************)
(* Audio loading                                                           *)
(***************************************************************************)
\* amplitudes of a decoded mono waveform
Samples == {0, 1}

RECURSIVE SeqsUpTo(_, _)
SeqsUpTo(S, n) ==
    IF n = 0 THEN {<<>>}
    ELSE LET shorter == SeqsUpTo(S, n - 1)
         IN  shorter \cup {Append(w, s) : w \in {v \in shorter : Len(v) = n - 1}, s \in S}

Waveforms == SeqsUpTo(Samples, MaxWaveLen)

RECURSIVE Zeros(_)
Zeros(n) == IF n <= 0 THEN <<>> ELSE <<0>> \o Zeros(n - 1)

\* Upload.__init__ / SafeLoader.__init__: self.length = self.duration * self.sample_rate
LoaderInit(sample_rate, duration) ==
    [sample_rate |-> sample_rate, duration |-> duration, length |-> duration * sample_rate]

\* librosa.get_duration(y=waveform, sr=sample_rate): the float len(y) / sr,
\* kept as the exact fraction <<numerator, denominator>>
get_duration(y, sr) == <<Len(y), sr>>

\* float comparison "duration != self.duration" of a fraction with an integer
DurationDiffers(frac, duration) == frac[1] # duration * frac[2]

\* librosa.util.fix_length(data, size=size): truncate to the first size samples
\* when longer, pad with trailing zeros when shorter, return as is when equal
fix_length(data, size) ==
    IF Len(data) > size THEN SubSeq(data, 1, size)
    ELSE IF Len(data) < size THEN data \o Zeros(size - Len(data))
    ELSE data

\* a plausible slip: only recordings that are too long are fixed
check_duration_longer_only(cfg, waveform) ==
    IF Len(waveform) > cfg.duration * cfg.sample_rate
    THEN fix_length(waveform, cfg.length)
    ELSE waveform

\* a plausible slip: duration compared after integer division
check_duration_floor(cfg, waveform) ==
    IF (Len(waveform) \div cfg.sample_rate) # cfg.duration
    THEN fix_length(waveform, cfg.length)
    ELSE waveform

\* Upload.check_duration
check_duration(cfg, waveform) ==
    IF DurationDiffers(get_duration(waveform, cfg.sample_rate), cfg.duration)
    THEN fix_length(waveform, cfg.length)
    ELSE waveform

\* np.expand_dims(waveform, axis=0): a leading channel axis of size 1
expand_dims(waveform) == <<waveform>>

\* Upload.forward after librosa.load has decoded the source
UploadForwardOf(cfg, waveform) == expand_dims(check_duration(cfg, waveform))

\* a plausible slip: the loader forgets to fix the length
SafeLoaderForwardRaw(cfg, waveform) == expand_dims(waveform)

\* SafeLoader.forward after librosa.load has decoded the source
SafeLoaderForwardOf(cfg, waveform) == expand_dims(fix_length(waveform, cfg.length))

LoaderStart ==
    /\ loaderCfg \in {LoaderInit(sr, d) : sr \in 1..MaxSampleRate, d \in 1..MaxDuration}
    /\ source = <<>>
    /\ uploadOut = NoTensor
    /\ safeOut = NoTensor

\* a new audio source is handed to the loaders
NewSource(w) ==
    /\ source' = w
    /\ uploadOut' = NoTensor
    /\ safeOut' = NoTensor
    /\ UNCHANGED loaderCfg
    /\ UNCHANGED <<sessionVars, pageVars, predictVars, extraVars>>

\* Upload.forward(source)
UploadForward ==
    /\ uploadOut = NoTensor
    /\ uploadOut' = UploadForwardOf(loaderCfg, source)
    /\ UNCHANGED <<loaderCfg, source, safeOut>>
    /\ UNCHANGED <<sessionVars, pageVars, predictVars, extraVars>>

\* SafeLoader.forward(source)
SafeLoaderForward ==
    /\ safeOut = NoTensor
    /\ safeOut' = SafeLoaderForwardOf(loaderCfg, source)
    /\ UNCHANGED <<loaderCfg, source, uploadOut>>
    /\ UNCHANGED <<sessionVars, pageVars, predictVars, extraVars>>

LoaderIdle ==
    /\ loaderCfg = LoaderInit(1, 1)
    /\ source = <<>>
    /\ uploadOut = NoTensor
    /\ safeOut = NoTensor

(***************************************************************************)
(* Softmax, argmax and label decoding                                      *)
(***************************************************************************)
\* the fixed class list (Diagnostics page, get_base_cardionet)
Classes == <<"artifact", "healthy", "abnormal">>

\* float32 values are modelled in fixed point: exp values in units of
\* 1/EScale, probabilities in units of 1/PScale, plus inf and nan
EScale == 1000
PScale == 100000
\* np.exp on float32 overflows to inf for arguments above ExpOverflow and
\* underflows to 0 for arguments at or below ExpUnderflow
ExpOverflow == 88
ExpUnderflow == -104
\* 1e-4 in units of 1/PScale
SumTolerance == PScale \div 10000

Fin(v) == [k |-> "fin", v |-> v]
Inf == [k |-> "inf", v |-> 0]
NaN == [k |-> "nan", v |-> 0]

\* e^x in units of 1/EScale (e = 2.718...)
RECURSIVE ExpFix(_)
ExpFix(x) ==
    IF x = 0 THEN EScale
    ELSE IF x > 0 THEN (ExpFix(x - 1) * 2718) \div 1000
    ELSE IF x < -12 THEN 0
    ELSE (ExpFix(x + 1) * 1000) \div 2718

\* np.exp / torch.exp of one float32 value
Exp32(x) ==
    IF x > ExpOverflow THEN Inf
    ELSE IF x <= ExpUnderflow THEN Fin(0)
    ELSE Fin(ExpFix(x))

RECURSIVE FSumFrom(_, _)
FSumFrom(t, i) ==
    IF i > Len(t) THEN Fin(0)
    ELSE LET rest == FSumFrom(t, i + 1)
         IN  IF t[i].k = "nan" \/ rest.k = "nan" THEN NaN
             ELSE IF t[i].k = "inf" \/ rest.k = "inf" THEN Inf
             ELSE Fin(t[i].v + rest.v)

\* np.sum / torch.sum over a vector of floats
FSum(t) == FSumFrom(t, 1)

\* IEEE division a / b of non-negative floats; the quotient is in units of 1/PScale
FDiv(a, b) ==
    IF a.k = "nan" \/ b.k = "nan" THEN NaN
    ELSE IF a.k = "inf" THEN (IF b.k = "inf" THEN NaN ELSE Inf)
    ELSE IF b.k = "inf" THEN Fin(0)
    ELSE IF b.v = 0 THEN (IF a.v = 0 THEN NaN ELSE Inf)
    ELSE Fin((a.v * PScale) \div b.v)

\* IEEE a <= b: false whenever nan is involved
FLeq(a, b) ==
    /\ a.k # "nan" /\ b.k # "nan"
    /\ \/ b.k = "inf"
       \/ a.k = "fin" /\ b.k = "fin" /\ a.v <= b.v

MaxOf(S) == CHOOSE m \in S : \A x \in S : x <= m
MinOf(S) == CHOOSE m \in S : \A x \in S : m <= x

\* numpy / torch squeeze of a [batch, classes] tensor: a batch axis of size 1 is dropped
squeeze(t) == IF Len(t) = 1 THEN t[1] ELSE t

\* PredictionSession._softmax: exp = np.exp(logites); exp / np.sum(exp)
_softmax(logites) ==
    LET exp == [i \in 1..Len(logites) |-> Exp32(logites[i])]
        total == FSum(exp)
    IN  [i \in 1..Len(logites) |-> FDiv(exp[i], total)]

\* torch.nn.functional.softmax(logites, dim=0) on a vector: the maximum is
\* subtracted before exponentiation
F_softmax(logites) ==
    LET top == MaxOf({logites[i] : i \in 1..Len(logites)})
        exp == [i \in 1..Len(logites) |-> Exp32(logites[i] - top)]
        total == FSum(exp)
    IN  [i \in 1..Len(logites) |-> FDiv(exp[i], total)]

\* np.ndarray.argmax / torch.argmax: the first nan if there is one,
\* else the first index holding the maximum (1-based here)
argmax(probs) ==
    LET nans == {i \in 1..Len(probs) : probs[i].k = "nan"}
        tops == {i \in 1..Len(probs) : \A j \in 1..Len(probs) : FLeq(probs[j], probs[i])}
    IN  IF nans # {} THEN MinOf(nans) ELSE MinOf(tops)

\* PredictionSession.forward: run the session, squeeze, softmax
SessionForward(runOutput) == _softmax(squeeze(runOutput))

\* PredictionSession._get_output: dict(zip(classes, probs))
_get_output(probs) ==
    LET n == IF Len(Classes) < Len(probs) THEN Len(Classes) ELSE Len(probs)
    IN  [c \in {Classes[i] : i \in 1..n} |->
            probs[CHOOSE i \in 1..n : Classes[i] = c]]

\* PredictionSession._get_predict: classes[probs.argmax()]
_get_predict(probs) == Classes[argmax(probs)]

\* PredictionSession.__call__ once session.run has returned runOutput
SessionCallOf(runOutput) ==
    LET probs == SessionForward(runOutput)
    IN  [predict |-> _get_predict(probs), outputs |-> _get_output(probs), probs |-> probs]

\* BaseWrapper.label_decoding for a 0-dim preds
label_decoding(preds) == Classes[preds]

\* BaseWrapper.forward once self.model has returned the (squeezed) logits
WrapperOutputOf(logites) ==
    LET probs == F_softmax(logites)
        preds == argmax(probs)
    IN  [preds |-> label_decoding(preds), probs |-> probs, classes |-> Classes]

NoOutput == [called |-> FALSE]

\* logits the model can produce; float32 values far outside the ordinary range included
LogitValues == (-MaxLogit..MaxLogit) \cup {ExpOverflow + 1, ExpOverflow + 2, ExpUnderflow}

LogitVectors == [1..Len(Classes) -> LogitValues]

SessionStart ==
    /\ logits = <<[i \in 1..Len(Classes) |-> 0]>>
    /\ sessOut = NoOutput
    /\ wrapOut = NoOutput

SessionIdle == SessionStart

\* the model is run on a new input and yields logits l (batch of one)
ModelRun(l) ==
    /\ logits' = <<l>>
    /\ sessOut' = NoOutput
    /\ wrapOut' = NoOutput
    /\ UNCHANGED <<loaderVars, pageVars, predictVars, extraVars>>

\* PredictionSession.__call__
SessionCall ==
    /\ sessOut = NoOutput
    /\ sessOut' = SessionCallOf(logits)
    /\ UNCHANGED <<logits, wrapOut>>
    /\ UNCHANGED <<loaderVars, pageVars, predictVars, extraVars>>

\* BaseWrapper.forward (BaselineRNNModel.forward squeezes the batch axis)
WrapperCall ==
    /\ wrapOut = NoOutput
    /\ wrapOut' = WrapperOutputOf(squeeze(logits))
    /\ UNCHANGED <<logits, sessOut>>
    /\ UNCHANGED <<loaderVars, pageVars, predictVars, extraVars>>

(***************************************************************************)
(* Diagnostics page: routing to the audio-only or multimodal session       *)
(***************************************************************************)
\* filenames the two PredictionSession objects of the page are built from
UnoModel == "cardionetv2uno.onnx"
MultimodalModel == "cardionetv2multi.onnx"

RadioOptions == {"Default", "Yes", "No"}

NoAudio == 0
NoReturn == <<>>

\* str.lower() on the radio options
lower(option) ==
    CASE option = "Default" -> "default"
      [] option = "Yes" -> "yes"
      [] option = "No" -> "no"

\* a plausible slip: the form contents are returned whether or not the
\* submit button was pressed
get_all_form_unsubmitted(categorical, quantity, submit_button) ==
    [submitted |-> TRUE, categorical |-> categorical, quantity |-> quantity]

\* ExtraForm.get_all_form: the two dicts once the submit button is pressed, else None
get_all_form(categorical, quantity, submit_button) ==
    IF submit_button
    THEN [submitted |-> TRUE, categorical |-> categorical, quantity |-> quantity]
    ELSE [submitted |-> FALSE]

\* TabularPreprocessor.__call__(categorical, quantity): normalized numeric
\* columns first, encoded categorical columns after
tabular_preprocessor(categorical, quantity) == <<"tabular", quantity, categorical>>

\* one invocation of a PredictionSession with its positional inputs
Invocation(filename, inputs) == [session |-> filename, inputs |-> inputs]

\* predict(audio) of the Diagnostics page: the session invocations it makes
predict(audio, is_multimodal, categorical, quantity, submit_button) ==
    IF lower(is_multimodal) = "no"
    THEN <<Invocation(UnoModel, <<audio>>)>>
    ELSE IF lower(is_multimodal) = "yes"
    THEN LET tabular == get_all_form(categorical, quantity, submit_button)
         IN  IF tabular.submitted
             THEN <<Invocation(MultimodalModel,
                               <<audio, tabular_preprocessor(tabular.categorical, tabular.quantity)>>)>>
             ELSE <<>>
    ELSE <<>>

Deviations ==
    "deviations from the norm, which can be either symptoms of serious heart disease or a temporary phenomenon"

Absence == "the absence of deviations from the norm in the cardiovascular system"

\* get_indicates(predicted); the labels of classes are in lower case already
get_indicates(predicted) ==
    IF predicted \in {"healthy", "normal"} THEN Deviations ELSE Absence

NoReport == [kind |-> "None", indicates |-> "", image |-> ""]

\* classification_report(predicted, prob): the sentence and the status image
classification_report(predicted) ==
    [kind |-> "classification", indicates |-> get_indicates(predicted), image |-> predicted]

\* artifact_report(): the warning and the phone placement picture
artifact_report == [kind |-> "artifact", indicates |-> "", image |-> "phone-body-location"]

\* the names session.get_inputs() gives for the two models, as the page uses
\* them: one input for the audio-only model, two for the multimodal one
\* (PredictionSession.__get_input_names)
InputNames(filename) ==
    IF filename = UnoModel THEN <<"input_1">> ELSE <<"input_1", "input_2">>

\* zip(a, b): pairs up to the end of the shorter sequence
zip(a, b) == {<<a[i], b[i]>> : i \in 1..(IF Len(a) < Len(b) THEN Len(a) ELSE Len(b))}

\* PredictionSession._get_input(*args): dict(zip(self.__input_names, args))
_get_input(input_names, args) == zip(input_names, args)

\* InferenceSession.run(None, inputs): ValueError when a required input is
\* missing from the feed, else the model runs
session_run(input_names, inputs) ==
    IF \A i \in 1..Len(input_names) : \E pair \in inputs : pair[1] = input_names[i]
    THEN "ran" ELSE "ValueError"

NoSessionCall == [session |-> "", args |-> <<>>, inputs |-> {}, outcome |-> "None"]

\* PredictionSession.__call__(*inputs) up to session.run
SessionCallBinding(filename, args) ==
    LET inputs == _get_input(InputNames(filename), args)
    IN  [session |-> filename, args |-> args, inputs |-> inputs,
         outcome |-> session_run(InputNames(filename), inputs)]

PageInputs ==
    [audio : {NoAudio} \cup (1..MaxAudio), radio : RadioOptions,
     categorical : 1..MaxForm, quantity : 1..MaxForm, submit : BOOLEAN]

PageStart ==
    /\ pageInput = [audio |-> NoAudio, radio |-> "Default",
                    categorical |-> 1, quantity |-> 1, submit |-> FALSE]
    /\ pageCalls = <<>>
    /\ pageOuts = NoReturn
    /\ pageReport = NoReport
    /\ sessionCall = NoSessionCall

\* one rerun of the page script: load_audio(), then predict(audio) when audio
\* was given; every invoked session returns (label, label -> probability)
PageRerun(in, label) ==
    /\ pageInput' = in
    /\ pageCalls' = IF in.audio = NoAudio THEN <<>>
                    ELSE predict(in.audio, in.radio, in.categorical, in.quantity, in.submit)
    /\ pageOuts' = IF pageCalls' = <<>> THEN NoReturn ELSE <<label>>
    /\ pageReport' = IF pageOuts' = NoReturn THEN NoReport
                     ELSE IF pageOuts'[1] = "artifact" THEN artifact_report
                     ELSE classification_report(pageOuts'[1])
    /\ UNCHANGED sessionCall
    /\ UNCHANGED <<loaderVars, sessionVars, predictVars, extraVars>>

\* one of the page's sessions called with the arrays args
SessionInvoke(filename, args) ==
    /\ sessionCall' = SessionCallBinding(filename, args)
    /\ UNCHANGED <<pageInput, pageCalls, pageOuts, pageReport>>
    /\ UNCHANGED <<loaderVars, sessionVars, predictVars, extraVars>>

(***************************************************************************)
(* BaseWrapper: one cached wrapper, concurrent forward calls               *)
(***************************************************************************)
Callers == 1..MaxCalls

Stages == {"Loading", "Extracting", "Inferring"}

\* the Upload configuration of the wrapper's pipeline, scaled down from
\* get_base_cardionet's sample_rate=22050, duration=10 to a 2-sample target
PredictCfg == LoaderInit(2, 1)

\* audio sources handed to predict: undecodable data, or a decodable waveform
PredictSources ==
    {[ok |-> FALSE, wave |-> <<>>]} \cup
    {[ok |-> TRUE, wave |-> w] : w \in {<<0, 1>>, <<1, 1, 1>>}}

NoSource == [ok |-> FALSE, wave |-> <<0>>]
NoFeatures == -1
NoThrow == [stage |-> "None", kind |-> "None"]
NoError == "None"

\* exception kinds the libraries under each stage raise
DecodeErrors == {"NoBackendError"}
ExtractErrors == {"RuntimeError"}
ModelErrors == {"RuntimeError", "OutOfMemoryError"}

StateDicts ==
    [weights : [1..Len(Classes) -> 0..MaxWeight], stats : 0..MaxStat]

\* BaselineRNNModel as built by get_base_cardionet, before define_model:
\* a new torch Module is in training mode and its parameters require grad
FreshModel ==
    [weights |-> [k \in 1..Len(Classes) |-> 0], stats |-> 0,
     training |-> TRUE, requires_grad |-> TRUE]

\* a plausible slip: the weights are loaded but the module is left in training mode
define_model_no_eval(m, state_dict) ==
    [m EXCEPT !.weights = state_dict.weights, !.stats = state_dict.stats,
              !.requires_grad = FALSE]

\* BaseWrapper.define_model: load_state_dict, eval(), freeze()
define_model(m, state_dict) ==
    [m EXCEPT !.weights = state_dict.weights, !.stats = state_dict.stats,
              !.training = FALSE, !.requires_grad = FALSE]

\* MFCCExtractor.forward, abstracted to one number per waveform
mfcc(tensor) ==
    LET w == tensor[1]
        RECURSIVE Weighted(_)
        Weighted(i) == IF i > Len(w) THEN 0 ELSE i * w[i] + Weighted(i + 1)
    IN  Weighted(1)

\* BaselineRNNModel.forward on one input: the logits and the module afterwards.
\* BatchNorm1d normalises with its stored statistics in eval mode; in training
\* mode it normalises with the batch statistics and updates the stored ones.
ModelForward(m, x) ==
    LET batchStat == x % (MaxStat + 1)
        used == IF m.training THEN batchStat ELSE m.stats
        newStats == IF m.training THEN (m.stats + batchStat + 1) % (MaxStat + 1) ELSE m.stats
    IN  [logits |-> [k \in 1..Len(Classes) |->
                        ((m.weights[k] * (x + 1) + used + k) % (2 * MaxLogit + 1)) - MaxLogit],
         model |-> [m EXCEPT !.stats = newStats]]

IdleCall ==
    [pc |-> "Idle", source |-> NoSource, waveform |-> NoTensor, output |-> NoFeatures,
     result |-> NoOutput, error |-> NoError, thrown |-> NoThrow,
     runs |-> [s \in Stages |-> 0]]

\* a plausible slip: forward swallows the exception and returns a default result
PropagateFallback(call, kind) ==
    [call EXCEPT !.pc = "Done",
                 !.result = [preds |-> Classes[1], probs |-> <<>>, classes |-> Classes]]

\* a plausible slip: forward wraps every exception into one opaque error kind
PropagateWrapped(call, kind) ==
    [call EXCEPT !.pc = "Failed", !.error = "InferenceError"]

\* an exception raised inside BaseWrapper.forward: there is no try/except, so
\* the call ends with that same exception and returns nothing
Propagate(call, kind) ==
    [call EXCEPT !.pc = "Failed", !.error = kind]

\* the stage of the call raises kind
Throw(call, stage, kind) ==
    [Propagate(call, kind) EXCEPT !.thrown = [stage |-> stage, kind |-> kind]]

Ran(call, stage) == [call EXCEPT !.runs[stage] = @ + 1]

\* a plausible slip: the pipeline output is kept on the shared wrapper
\* (self.output) instead of in a local variable
OutputShared(c) ==
    LET holders == {d \in Callers : calls[d].output # NoFeatures}
    IN  calls[MinOf(holders)].output

\* the local variable output that forward hands to self.model
OutputOf(c) == calls[c].output

PredictStart ==
    /\ stateDict \in StateDicts
    /\ model = define_model(FreshModel, stateDict)
    /\ calls = [c \in Callers |-> IdleCall]

PredictIdle ==
    /\ stateDict = [weights |-> [k \in 1..Len(Classes) |-> 0], stats |-> 0]
    /\ model = define_model(FreshModel, stateDict)
    /\ calls = [c \in Callers |-> IdleCall]

\* caller c invokes base_cardionet(src)
BeginPredict(c, src) ==
    /\ calls[c].pc \in {"Idle", "Done", "Failed"}
    /\ calls' = [calls EXCEPT ![c] = [IdleCall EXCEPT !.pc = "Loading", !.source = src]]
    /\ UNCHANGED <<stateDict, model>>
    /\ UNCHANGED <<loaderVars, sessionVars, pageVars, extraVars>>

\* a plausible slip: the waveform is handed to the model without feature extraction
LoadSkipsExtract(c) ==
    /\ calls[c].pc = "Loading"
    /\ LET call == Ran(calls[c], "Loading")
       IN  IF call.source.ok
           THEN calls' = [calls EXCEPT ![c] =
                    [call EXCEPT !.pc = "Inferring",
                                 !.waveform = UploadForwardOf(PredictCfg, call.source.wave),
                                 !.output = 0]]
           ELSE \E kind \in DecodeErrors :
                    calls' = [calls EXCEPT ![c] = Throw(call, "Loading", kind)]
    /\ UNCHANGED <<stateDict, model>>
    /\ UNCHANGED <<loaderVars, sessionVars, pageVars, extraVars>>

\* self.pipeline(source), first half: ETLPipeline.forward runs self.upload
Load(c) ==
    /\ calls[c].pc = "Loading"
    /\ LET call == Ran(calls[c], "Loading")
       IN  IF call.source.ok
           THEN calls' = [calls EXCEPT ![c] =
                    [call EXCEPT !.pc = "Extracting",
                                 !.waveform = UploadForwardOf(PredictCfg, call.source.wave)]]
           ELSE \E kind \in DecodeErrors :
                    calls' = [calls EXCEPT ![c] = Throw(call, "Loading", kind)]
    /\ UNCHANGED <<stateDict, model>>
    /\ UNCHANGED <<loaderVars, sessionVars, pageVars, extraVars>>

\* self.pipeline(source), second half: ETLPipeline.forward runs self.extractor
Extract(c, fails) ==
    /\ calls[c].pc = "Extracting"
    /\ LET call == Ran(calls[c], "Extracting")
       IN  IF ~fails
           THEN calls' = [calls EXCEPT ![c] =
                    [call EXCEPT !.pc = "Inferring", !.output = mfcc(call.waveform)]]
           ELSE \E kind \in ExtractErrors :
                    calls' = [calls EXCEPT ![c] = Throw(call, "Extracting", kind)]
    /\ UNCHANGED <<stateDict, model>>
    /\ UNCHANGED <<loaderVars, sessionVars, pageVars, extraVars>>

\* self.model(output), softmax, argmax, label decoding, return
Infer(c, fails) ==
    /\ calls[c].pc = "Inferring"
    /\ LET call == Ran(calls[c], "Inferring")
           out == ModelForward(model, OutputOf(c))
       IN  IF ~fails
           THEN /\ calls' = [calls EXCEPT ![c] =
                        [call EXCEPT !.pc = "Done", !.result = WrapperOutputOf(out.logits)]]
                /\ model' = out.model
           ELSE /\ \E kind \in ModelErrors :
                        calls' = [calls EXCEPT ![c] = Throw(call, "Inferring", kind)]
                /\ model' = model
    /\ UNCHANGED stateDict
    /\ UNCHANGED <<loaderVars, sessionVars, pageVars, extraVars>>

(***************************************************************************)
(* Artifacts: weights, exported models, fitted transformers, and caches    *)
(***************************************************************************)
\* TabularPreprocessor(dirname=...): the default directory and another one
Dirnames == {"preprocessors", "preprocessors_v2"}

NormalizerFile == "Normalizer.joblib"
EncoderFile == "OneHotEncoder.joblib"
TransformerFiles == <<NormalizerFile, EncoderFile>>

\* weights_path of get_base_cardionet, and the hub repository of _make_session
WeightsPath == <<"sonixhub/weights", "cardionet-v1.0.0.pth">>
HubRepo == "Cardionix/cardionet-v2"
HubFiles == {UnoModel, MultimodalModel}

AllPaths ==
    {<<d, TransformerFiles[i]>> : d \in Dirnames, i \in 1..2}
        \cup {WeightsPath} \cup {<<HubRepo, f>> : f \in HubFiles}

\* st.cache_resource keys: the function and its hashed arguments; an
\* argument whose name starts with an underscore (_self) is not hashed
CacheKeys ==
    {<<"get_base_cardionet", "">>}
        \cup {<<"_make_session", f>> : f \in HubFiles}
        \cup {<<"__make_preprocessor", TransformerFiles[i]>> : i \in 1..2}

NoObject == [path |-> <<"", "">>, serial |-> 0]

\* the object produced by the n-th load of the file at path
Loaded(path, n) == [path |-> path, serial |-> n]

NoCtor == [class |-> "None", dirname |-> "", outcome |-> "None", missing |-> FALSE]

\* a finished construction attempt
Ctor(class, dirname, outcome, missing) ==
    [class |-> class, dirname |-> dirname, outcome |-> outcome, missing |-> missing]

Instance(class, dirname, parts) == [class |-> class, dirname |-> dirname, parts |-> parts]

\* TabularPreprocessor._get_path: os.path.join(os.getcwd(), self.__dirname, filename)
_get_path(dirname, filename) == <<dirname, filename>>

\* a function under st.cache_resource called with key: the cached object when
\* there is one; else the body runs on path, its result is stored and
\* returned, and an exception of the body is raised and not stored.
\* Result: [ok, object, cache, loads]
CachedLoad(cch, lds, key, path, exists) ==
    IF cch[key] # NoObject
    THEN [ok |-> TRUE, object |-> cch[key], cache |-> cch, loads |-> lds]
    ELSE IF exists
    THEN LET obj == Loaded(path, lds[path] + 1)
         IN  [ok |-> TRUE, object |-> obj,
              cache |-> [cch EXCEPT ![key] = obj],
              loads |-> [lds EXCEPT ![path] = @ + 1]]
    ELSE [ok |-> FALSE, object |-> NoObject, cache |-> cch, loads |-> lds]

\* the same body without a cache in front of it
PlainLoad(cch, lds, path, exists) ==
    IF exists
    THEN [ok |-> TRUE, object |-> Loaded(path, lds[path] + 1), cache |-> cch,
          loads |-> [lds EXCEPT ![path] = @ + 1]]
    ELSE [ok |-> FALSE, object |-> NoObject, cache |-> cch, loads |-> lds]

\* pipeline TabularPreprocessor.__make_preprocessor(_self, filename) under
\* st.cache_resource: the key holds filename only
make_preprocessor_cached(cch, lds, dirname, filename) ==
    CachedLoad(cch, lds, <<"__make_preprocessor", filename>>,
               _get_path(dirname, filename), _get_path(dirname, filename) \in fs)

\* sonixhub TabularPreprocessor.__make_preprocessor(self, filename): no cache
make_preprocessor_plain(cch, lds, dirname, filename) ==
    PlainLoad(cch, lds, _get_path(dirname, filename), _get_path(dirname, filename) \in fs)

ArtifactStart ==
    /\ fs \in SUBSET AllPaths
    /\ cache = [k \in CacheKeys |-> NoObject]
    /\ loads = [p \in AllPaths |-> 0]
    /\ instances = {}
    /\ lastCtor = NoCtor
    /\ uses = {}

ArtifactIdle ==
    /\ fs = AllPaths
    /\ cache = [k \in CacheKeys |-> NoObject]
    /\ loads = [p \in AllPaths |-> 0]
    /\ instances = {}
    /\ lastCtor = NoCtor
    /\ uses = {}


\* get_base_cardionet() under st.cache_resource: BaseWrapper.__init__ ->
\* define_model -> torch.load(weights_path), FileNotFoundError when absent
GetBaseCardionet ==
    /\ loads[WeightsPath] < MaxLoads
    /\ LET r == CachedLoad(cache, loads, <<"get_base_cardionet", "">>,
                           WeightsPath, WeightsPath \in fs)
       IN  /\ cache' = r.cache
           /\ loads' = r.loads
           /\ IF r.ok
              THEN /\ instances' = instances \cup {Instance("BaseWrapper", "", <<r.object>>)}
                   /\ lastCtor' = Ctor("BaseWrapper", "", "ok", WeightsPath \notin fs)
              ELSE /\ instances' = instances
                   /\ lastCtor' = Ctor("BaseWrapper", "", "FileNotFoundError", TRUE)
    /\ UNCHANGED <<fs, uses>>
    /\ UNCHANGED <<baseVars, shapeVars, tabVars, audioVars>>

\* PredictionSession(filename): _make_session(filename) under
\* st.cache_resource: hf_hub_download, then InferenceSession(model)
NewPredictionSession(filename) ==
    /\ loads[<<HubRepo, filename>>] < MaxLoads
    /\ LET path == <<HubRepo, filename>>
           r == CachedLoad(cache, loads, <<"_make_session", filename>>, path, path \in fs)
       IN  /\ cache' = r.cache
           /\ loads' = r.loads
           /\ IF r.ok
              THEN /\ instances' = instances \cup {Instance("PredictionSession", "", <<r.object>>)}
                   /\ lastCtor' = Ctor("PredictionSession", "", "ok", path \notin fs)
              ELSE /\ instances' = instances
                   /\ lastCtor' = Ctor("PredictionSession", "", "EntryNotFoundError", TRUE)
    /\ UNCHANGED <<fs, uses>>
    /\ UNCHANGED <<baseVars, shapeVars, tabVars, audioVars>>

\* TabularPreprocessor.__init__ of either implementation: the normalizer is
\* made first, then the encoder, by the implementation's __make_preprocessor
\* (cached in pipeline, not in sonixhub), which raises FileExistsError when
\* the file is absent
TabularInit(class, dirname, cached) ==
    LET n == IF cached THEN make_preprocessor_cached(cache, loads, dirname, NormalizerFile)
             ELSE make_preprocessor_plain(cache, loads, dirname, NormalizerFile)
        e == IF cached THEN make_preprocessor_cached(n.cache, n.loads, dirname, EncoderFile)
             ELSE make_preprocessor_plain(n.cache, n.loads, dirname, EncoderFile)
        missing == \E i \in 1..2 : _get_path(dirname, TransformerFiles[i]) \notin fs
    IN  IF ~n.ok
        THEN /\ cache' = n.cache /\ loads' = n.loads /\ instances' = instances
             /\ lastCtor' = Ctor(class, dirname, "FileExistsError", missing)
        ELSE /\ cache' = e.cache /\ loads' = e.loads
             /\ IF e.ok
                THEN /\ instances' = instances \cup {Instance(class, dirname, <<n.object, e.object>>)}
                     /\ lastCtor' = Ctor(class, dirname, "ok", missing)
                ELSE /\ instances' = instances
                     /\ lastCtor' = Ctor(class, dirname, "FileExistsError", missing)

\* pipeline.TabularPreprocessor(dirname)
NewPipelineTabular(dirname) ==
    /\ \A i \in 1..2 : loads[_get_path(dirname, TransformerFiles[i])] < MaxLoads
    /\ TabularInit("pipeline.TabularPreprocessor", dirname, TRUE)
    /\ UNCHANGED <<fs, uses>>
    /\ UNCHANGED <<baseVars, shapeVars, tabVars, audioVars>>

\* sonixhub.transforms.TabularPreprocessor(): self.__dirname = "preprocessors"
NewSonixhubTabular ==
    /\ \A i \in 1..2 : loads[_get_path("preprocessors", TransformerFiles[i])] < MaxLoads
    /\ TabularInit("sonixhub.TabularPreprocessor", "preprocessors", FALSE)
    /\ UNCHANGED <<fs, uses>>
    /\ UNCHANGED <<baseVars, shapeVars, tabVars, audioVars>>

\* a prediction, normalize or encode call on a constructed object
UseInstance(obj) ==
    /\ obj \in instances
    /\ uses' = uses \cup {obj}
    /\ UNCHANGED <<fs, cache, loads, instances, lastCtor>>
    /\ UNCHANGED <<baseVars, shapeVars, tabVars, audioVars>>


(***************************************************************************)
(* Shapes: _conv_shape_info, Encoder, BaselineRNNModel, MFCCExtractor      *)
(***************************************************************************)
\* depth lists: 1..MaxBlocks entries, each in 1..MaxWidth
DepthLists == UNION {[1..n -> 1..MaxWidth] : n \in 1..MaxBlocks}

\* rnn_depth and decoder_depth: one or two entries, each in 1..MaxClasses
HeadLists == UNION {[1..n -> 1..MaxClasses] : n \in 1..2}

\* the padding argument: an int, or one of the strings "same" / "valid"
Paddings == {[mode |-> "same", n |-> 0], [mode |-> "valid", n |-> 0],
             [mode |-> "int", n |-> 0], [mode |-> "int", n |-> 1]}

NoShapeCall ==
    [op |-> "None", done |-> FALSE, impl |-> "", average_by |-> "", padding |-> "", kind |-> "",
     training |-> FALSE, args |-> <<>>, depths |-> <<>>, ok |-> FALSE, error |-> "None",
     out |-> <<>>, reduced |-> {}, trace |-> <<>>]

\* the result of a tensor operation that returned a tensor of this shape
Shape(shape) == [ok |-> TRUE, shape |-> shape, error |-> "None"]

\* ... and of one that raised
Raised(kind) == [ok |-> FALSE, shape |-> <<>>, error |-> kind]

_compute_conv_out_features(kernel_size, stride, padding, in_features) ==
    (in_features + 2 * padding - kernel_size) \div stride + 1

_compute_same_padding(in_features, out_features, stride) ==
    (stride * (in_features - out_features)) \div 2

\* the padding and out_features entries of the dict _conv_shape_info returns
_conv_shape_info(kernel_size, stride, padding, in_features) ==
    IF padding.mode = "int"
    THEN [padding |-> padding.n,
          out_features |-> _compute_conv_out_features(kernel_size, stride, padding.n, in_features)]
    ELSE IF padding.mode = "valid"
    THEN [padding |-> 0,
          out_features |-> _compute_conv_out_features(kernel_size, stride, 0, in_features)]
    ELSE LET default_out_features == _compute_conv_out_features(kernel_size, stride, 0, in_features)
             same == _compute_same_padding(in_features, default_out_features, stride)
         IN  [padding |-> same,
              out_features |-> _compute_conv_out_features(kernel_size, stride, same, in_features)]

\* Tensor.squeeze(): every dimension of size 1 is removed
SqueezeShape(shape) == SelectSeq(shape, LAMBDA d : d # 1)

\* nn.Conv1d(in_channels, out_channels, stride=1, kernel_size, padding="same")
\* on [batch, channels, length]: kernel_size - 1 zeros are added in total,
\* the left half rounded down
Conv1dSame(shape, in_channels, out_channels, kernel_size) ==
    LET total == kernel_size - 1
        left == total \div 2
        right == total - left
    IN  IF shape[2] # in_channels THEN Raised("RuntimeError")
        ELSE Shape(<<shape[1], out_channels, (shape[3] + left + right - kernel_size) + 1>>)

\* nn.MaxPool1d(kernel_size=2, stride=2) with ceil_mode=True instead
MaxPool1dCeil(shape) ==
    Shape(<<shape[1], shape[2], (shape[3] - 2 + 1) \div 2 + 1>>)

\* nn.MaxPool1d(kernel_size=2, stride=2, padding=1) instead
MaxPool1dPadded(shape) ==
    Shape(<<shape[1], shape[2], (shape[3] + 2 - 2) \div 2 + 1>>)

\* nn.MaxPool1d(kernel_size=2, stride=2): padding 0, ceil_mode=False
MaxPool1d(shape) ==
    LET length == (shape[3] - 2) \div 2 + 1
    IN  IF length <= 0 THEN Raised("RuntimeError")
        ELSE Shape(<<shape[1], shape[2], length>>)

\* nn.BatchNorm1d(num_features): in training mode a batch holding a single
\* value per channel is refused
BatchNorm1d(shape, num_features, training) ==
    IF shape[2] # num_features THEN Raised("RuntimeError")
    ELSE IF training /\ shape[1] * shape[3] = 1 THEN Raised("ValueError")
    ELSE Shape(shape)

\* one encoder block on a tensor: Conv1d -> activation -> MaxPool1d ->
\* BatchNorm1d (-> Dropout); [ok, shape, error, conv, pool], with the shapes
\* after the convolution and after the pool
EncoderBlockForward(shape, in_channels, out_channels, kernel_size, training) ==
    LET c == Conv1dSame(shape, in_channels, out_channels, kernel_size)
        p == IF c.ok THEN MaxPool1d(c.shape) ELSE c
        b == IF p.ok THEN BatchNorm1d(p.shape, out_channels, training) ELSE p
    IN  [ok |-> b.ok, shape |-> b.shape, error |-> b.error, conv |-> c.shape, pool |-> p.shape]

\* self.encoder(x): the blocks index..k of zip(encoder_depth, encoder_depth[1:]);
\* [ok, shape, error, trace], trace holding <<conv shape, pool shape>> per block
RECURSIVE EncoderFrom(_, _, _, _, _, _)
EncoderFrom(shape, encoder_depth, index, kernel_size, training, trace) ==
    IF index >= Len(encoder_depth)
    THEN [ok |-> TRUE, shape |-> shape, error |-> "None", trace |-> trace]
    ELSE LET b == EncoderBlockForward(shape, encoder_depth[index], encoder_depth[index + 1],
                                      kernel_size, training)
         IN  IF ~b.ok
             THEN [ok |-> FALSE, shape |-> <<>>, error |-> b.error, trace |-> trace]
             ELSE EncoderFrom(b.shape, encoder_depth, index + 1, kernel_size, training,
                              Append(trace, <<b.conv, b.pool>>))

EncoderForward(shape, input_shape, encoder_depth, kernel_size, training) ==
    EncoderFrom(shape, <<input_shape[1]>> \o encoder_depth, 1, kernel_size, training, <<>>)

\* Encoder.__init__: nn.Conv1d refuses padding="same" with a stride other
\* than 1; __get_output_shape runs the new (training mode) encoder on
\* torch.zeros((1, *input_shape))
EncoderInit(encoder_depth, input_shape, stride, kernel_size) ==
    IF stride # 1
    THEN [ok |-> FALSE, shape |-> <<>>, error |-> "ValueError", trace |-> <<>>]
    ELSE EncoderForward(<<1>> \o input_shape, input_shape, encoder_depth, kernel_size, TRUE)

\* nn.LSTM(input_size, hidden_size, batch_first=True) on [batch, seq, feature]:
\* the shape of hidden, [num_layers = 1, batch, hidden_size]
LSTMHidden(shape, input_size, hidden_size) ==
    IF shape[3] # input_size THEN Raised("RuntimeError")
    ELSE Shape(<<1, shape[1], hidden_size>>)

\* LSTMModule.forward: x runs through every block, the last block's hidden
\* state is returned; rnn_depth here is [input_shape[-1], *rnn_depth]
RECURSIVE LSTMFrom(_, _, _)
LSTMFrom(shape, rnn_depth, index) ==
    LET h == LSTMHidden(shape, rnn_depth[index], rnn_depth[index + 1])
    IN  IF ~h.ok \/ index + 1 >= Len(rnn_depth) THEN h
        ELSE LSTMFrom(<<shape[1], shape[2], rnn_depth[index + 1]>>, rnn_depth, index + 1)

LSTMModuleForward(shape, input_shape, rnn_depth) ==
    LSTMFrom(shape, <<input_shape[Len(input_shape)]>> \o rnn_depth, 1)

\* A tensor inside LSTMModule.forward by where it comes from: kind says
\* whether it is a layer's output sequence or its final hidden state, chain
\* lists the layers the input went through to give it, shape is its shape.
Flow(kind, chain, shape) == [kind |-> kind, chain |-> chain, shape |-> shape]

\* lstm_block(x) of block index: (output, (hidden, cell)) for x [batch, seq, feature]
LSTMBlock(x, index, hidden_size) ==
    [output |-> Flow("sequence", Append(x.chain, index), <<x.shape[1], x.shape[2], hidden_size>>),
     hidden |-> Flow("hidden", Append(x.chain, index), <<1, x.shape[1], hidden_size>>)]

\* the loop of LSTMModule.forward from block index on, x and hidden being the
\* loop's variables; rnn_depth here is [input_shape[-1], *rnn_depth]
RECURSIVE LSTMLoop(_, _, _, _)
LSTMLoop(x, hidden, rnn_depth, index) ==
    IF index >= Len(rnn_depth) THEN hidden
    ELSE IF x.shape[3] # rnn_depth[index] THEN Flow("RuntimeError", x.chain, <<>>)
    ELSE LET block == LSTMBlock(x, index, rnn_depth[index + 1])
         IN  LSTMLoop(block.output, block.hidden, rnn_depth, index + 1)

\* a forward that keeps the first block's hidden state
RECURSIVE LSTMLoopFirstHidden(_, _, _, _)
LSTMLoopFirstHidden(x, hidden, rnn_depth, index) ==
    IF index >= Len(rnn_depth) THEN hidden
    ELSE LET block == LSTMBlock(x, index, rnn_depth[index + 1])
         IN  LSTMLoopFirstHidden(block.output, IF index = 1 THEN block.hidden ELSE hidden,
                                 rnn_depth, index + 1)

\* a plausible slip: the first block's hidden state is returned
LSTMModuleFlowFirst(x, input_shape, rnn_depth) ==
    LSTMLoopFirstHidden(Flow("input", <<>>, x), Flow("unbound", <<>>, <<>>),
                        <<input_shape[Len(input_shape)]>> \o rnn_depth, 1)

\* LSTMModule(input_shape, rnn_depth).forward(x)
LSTMModuleFlow(x, input_shape, rnn_depth) ==
    LSTMLoop(Flow("input", <<>>, x), Flow("unbound", <<>>, <<>>),
             <<input_shape[Len(input_shape)]>> \o rnn_depth, 1)

\* Decoder.forward: a chain of nn.Linear over the last dimension;
\* decoder_depth here is [input_shape[0], *decoder_depth]
RECURSIVE DecoderFrom(_, _, _)
DecoderFrom(shape, decoder_depth, index) ==
    IF index >= Len(decoder_depth) THEN Shape(shape)
    ELSE IF shape[Len(shape)] # decoder_depth[index] THEN Raised("RuntimeError")
    ELSE DecoderFrom([shape EXCEPT ![Len(shape)] = decoder_depth[index + 1]],
                     decoder_depth, index + 1)

DecoderForward(shape, input_shape, decoder_depth) ==
    DecoderFrom(shape, <<input_shape[1]>> \o decoder_depth, 1)

\* BaselineRNNModel.__init__ then forward(x): encoder, rnn, decoder, squeeze
BaselineRNNModelForward(x, input_shape, depths, kernel_size, stride, training) ==
    LET encoder_depth == depths[1]
        rnn_depth == depths[2]
        decoder_depth == depths[3]
        built == EncoderInit(encoder_depth, input_shape, stride, kernel_size)
        e == EncoderForward(x, input_shape, encoder_depth, kernel_size, training)
        r == LSTMModuleForward(e.shape, built.shape, rnn_depth)
        d == DecoderForward(r.shape, <<rnn_depth[Len(rnn_depth)], 1>>, decoder_depth)
    IN  IF ~built.ok THEN Raised(built.error)
        ELSE IF ~e.ok THEN Raised(e.error)
        ELSE IF ~r.ok THEN r
        ELSE IF ~d.ok THEN d
        ELSE Shape(SqueezeShape(d.shape))

\* A tensor of MFCCs by its axes: axes names each dimension, sizes gives the
\* length of each, reduced holds the axes that have been averaged away.
Tensor(axes, sizes, reduced) == [ok |-> TRUE, axes |-> axes, sizes |-> sizes, reduced |-> reduced]

TensorRaised(kind) == [ok |-> FALSE, axes |-> <<>>, sizes |-> <<>>, reduced |-> {}, error |-> kind]

\* T.MFCC on a mono waveform [1, time]: [1, n_mfcc, frames]
mfcc_extractor(n_mfcc, frames) == Tensor(<<"channel", "mfcc", "time">>, <<1, n_mfcc, frames>>, {})

Indices(t) == 1..Len(t.sizes)

\* the subsequence of seq at the positions in keep, in order
RECURSIVE Filter(_, _, _)
Filter(seq, keep, i) ==
    IF i > Len(seq) THEN <<>>
    ELSE (IF i \in keep THEN <<seq[i]>> ELSE <<>>) \o Filter(seq, keep, i + 1)

\* Tensor.squeeze()
squeeze_all(t) ==
    LET keep == {i \in Indices(t) : t.sizes[i] # 1}
    IN  Tensor(Filter(t.axes, keep, 1), Filter(t.sizes, keep, 1), t.reduced)

\* Tensor.T: the dimensions in reverse order
transpose(t) ==
    Tensor([i \in Indices(t) |-> t.axes[Len(t.axes) + 1 - i]],
           [i \in Indices(t) |-> t.sizes[Len(t.sizes) + 1 - i]], t.reduced)

\* Tensor.mean(dim), dim counted from 0: IndexError when there is no such dimension
mean(t, dim) ==
    LET keep == Indices(t) \ {dim + 1}
    IN  IF dim + 1 \notin Indices(t) THEN TensorRaised("IndexError")
        ELSE Tensor(Filter(t.axes, keep, 1), Filter(t.sizes, keep, 1),
                    t.reduced \cup {t.axes[dim + 1]})

\* Tensor.unsqueeze(0)
unsqueeze0(t) == Tensor(<<"row">> \o t.axes, <<1>> \o t.sizes, t.reduced)

\* self.average_dict of both extractors
average_dict == [mfcc |-> 0, time |-> 1]

\* sonixhub MFCCExtractor.forward
SonixhubMFCCForward(n_mfcc, frames, average_by) ==
    LET mfccs == squeeze_all(mfcc_extractor(n_mfcc, frames))
    IN  IF average_by # "None"
        THEN LET m == mean(mfccs, average_dict[average_by])
             IN  IF m.ok THEN unsqueeze0(m) ELSE m
        ELSE mfccs

\* pipeline MFCCExtractor.forward
PipelineMFCCForward(n_mfcc, frames, average_by) ==
    LET mfccs == transpose(squeeze_all(mfcc_extractor(n_mfcc, frames)))
    IN  IF average_by # "None"
        THEN LET m == mean(mfccs, average_dict[average_by])
             IN  IF m.ok THEN unsqueeze0(m) ELSE m
        ELSE unsqueeze0(mfccs)

\* the calls the model follows, with their arguments, before they run
\* the ETLPipeline arguments of get_base_cardionet (mono=True: the waveform
\* librosa.load returns has one dimension)
ProdPipeline ==
    [sample_rate |-> 22050, duration |-> 10, n_fft |-> 2048, hop_length |-> 1024,
     n_mfcc |-> 52, average_by |-> "time"]

\* lengths of the decoded source: short ones, and the ones around the
\* length duration * sample_rate the pipeline is configured for
SourceLengths ==
    LET length == ProdPipeline.duration * ProdPipeline.sample_rate
    IN  (0..MaxWaveLen) \cup {ProdPipeline.hop_length, ProdPipeline.hop_length + 1,
                              length - 1, length, length + 1}

\* a plausible slip: the waveform keeps the length it was decoded with
UploadLengthRaw(n, sample_rate, duration) == n

\* the number of samples of Upload.check_duration's result for a decoded
\* waveform of n samples: fix_length pads or truncates to duration * sample_rate
UploadLength(n, sample_rate, duration) ==
    IF DurationDiffers(<<n, sample_rate>>, duration) THEN duration * sample_rate ELSE n

\* T.MFCC of a waveform [1, n]: the spectrogram is centred with reflect
\* padding of n_fft // 2 samples, which needs more samples than that, and has
\* one frame per hop_length samples plus one
MFCCOf(n, cfg) ==
    IF n <= cfg.n_fft \div 2 THEN TensorRaised("RuntimeError")
    ELSE mfcc_extractor(cfg.n_mfcc, n \div cfg.hop_length + 1)

\* sonixhub MFCCExtractor.forward on the tensor T.MFCC gave
ExtractorForwardOf(t, average_by) ==
    LET mfccs == squeeze_all(t)
    IN  IF average_by # "None"
        THEN LET m == mean(mfccs, average_dict[average_by])
             IN  IF m.ok THEN unsqueeze0(m) ELSE m
        ELSE mfccs

\* ETLPipeline.forward(filepath) for a source that decodes to n samples
ETLPipelineForward(n, cfg) ==
    LET t == MFCCOf(UploadLength(n, cfg.sample_rate, cfg.duration), cfg)
    IN  IF ~t.ok THEN t
        ELSE LET features == ExtractorForwardOf(t, cfg.average_by)
             IN  IF features.ok THEN unsqueeze0(features) ELSE features

ShapeStart ==
    \/ \E kernel_size \in 1..MaxKernel, stride \in 1..MaxStride, padding \in Paddings,
          in_features \in 1..MaxFeatures :
            shapeCall = [NoShapeCall EXCEPT
                !.op = "_conv_shape_info", !.padding = padding.mode,
                !.args = <<kernel_size, stride, padding.n, in_features>>]
    \/ \E encoder_depth \in DepthLists, channels \in 1..MaxWidth, length \in 1..MaxFeatures,
          stride \in 1..MaxStride, kernel_size \in 1..MaxKernel :
            shapeCall = [NoShapeCall EXCEPT
                !.op = "Encoder", !.args = <<channels, length, stride, kernel_size>>,
                !.depths = <<encoder_depth>>, !.training = TRUE]
    \/ \E batch \in 1..MaxBatch, length \in 1..MaxFeatures, encoder_depth \in DepthLists,
          rnn_depth \in HeadLists, decoder_depth \in HeadLists, training \in BOOLEAN :
            shapeCall = [NoShapeCall EXCEPT
                !.op = "BaselineRNNModel.forward", !.args = <<batch, 1, length>>,
                !.depths = <<encoder_depth, rnn_depth, decoder_depth>>,
                !.training = training]
    \/ \E impl \in {"sonixhub", "pipeline"}, n_mfcc \in 1..MaxMfcc, frames \in 1..MaxFrames,
          average_by \in {"time", "mfcc", "None"} :
            shapeCall = [NoShapeCall EXCEPT
                !.op = "MFCCExtractor.forward", !.impl = impl,
                !.average_by = average_by, !.args = <<n_mfcc, frames>>]
    \/ \E channels \in 1..MaxWidth, length \in 1..MaxFeatures :
            shapeCall = [NoShapeCall EXCEPT !.op = "MaxPool1d", !.args = <<channels, length>>]
    \/ \E n \in SourceLengths, average_by \in {"time", "mfcc", "None"},
          n_mfcc \in (1..MaxMfcc) \cup {ProdPipeline.n_mfcc} :
            shapeCall = [NoShapeCall EXCEPT !.op = "ETLPipeline.forward", !.args = <<n, n_mfcc>>,
                                            !.average_by = average_by]
    \/ \E batch \in 1..MaxBatch, channels \in 1..MaxWidth, length \in 1..MaxFeatures,
          rnn_depth \in DepthLists :
            shapeCall = [NoShapeCall EXCEPT !.op = "LSTMModule.forward",
                                            !.args = <<batch, channels, length>>,
                                            !.depths = <<rnn_depth>>]

ShapeIdle == shapeCall = NoShapeCall

\* _conv_shape_info(kernel_size, stride, padding, in_features)
ConvShapeInfo ==
    /\ shapeCall.op = "_conv_shape_info" /\ ~shapeCall.done
    /\ LET info == _conv_shape_info(shapeCall.args[1], shapeCall.args[2],
                                    [mode |-> shapeCall.padding, n |-> shapeCall.args[3]],
                                    shapeCall.args[4])
       IN  shapeCall' = [shapeCall EXCEPT !.done = TRUE, !.ok = TRUE,
                                          !.out = <<info.padding, info.out_features>>]
    /\ UNCHANGED <<baseVars, artifactVars, tabVars, audioVars>>

\* Encoder(encoder_depth, input_shape, stride, kernel_size)
NewEncoder ==
    /\ shapeCall.op = "Encoder" /\ ~shapeCall.done
    /\ LET e == EncoderInit(shapeCall.depths[1], <<shapeCall.args[1], shapeCall.args[2]>>,
                            shapeCall.args[3], shapeCall.args[4])
       IN  shapeCall' = [shapeCall EXCEPT !.done = TRUE, !.ok = e.ok, !.error = e.error,
                                          !.out = e.shape, !.trace = e.trace]
    /\ UNCHANGED <<baseVars, artifactVars, tabVars, audioVars>>

\* BaselineRNNModel(input_shape, encoder_depth, rnn_depth, decoder_depth)(x);
\* kernel_size = 5 and stride = 1 are the defaults of __init__
ModelShapeForward ==
    /\ shapeCall.op = "BaselineRNNModel.forward" /\ ~shapeCall.done
    /\ LET input_shape == <<shapeCall.args[2], shapeCall.args[3]>>
           y == BaselineRNNModelForward(<<shapeCall.args[1]>> \o input_shape, input_shape,
                                        shapeCall.depths, 5, 1, shapeCall.training)
       IN  shapeCall' = [shapeCall EXCEPT !.done = TRUE, !.ok = y.ok, !.error = y.error,
                                          !.out = y.shape]
    /\ UNCHANGED <<baseVars, artifactVars, tabVars, audioVars>>

\* MFCCExtractor(n_mfcc=..., average_by=...)(waveform) of either package
MFCCForward ==
    /\ shapeCall.op = "MFCCExtractor.forward" /\ ~shapeCall.done
    /\ LET t == IF shapeCall.impl = "sonixhub"
                THEN SonixhubMFCCForward(shapeCall.args[1], shapeCall.args[2], shapeCall.average_by)
                ELSE PipelineMFCCForward(shapeCall.args[1], shapeCall.args[2], shapeCall.average_by)
       IN  shapeCall' = [shapeCall EXCEPT !.done = TRUE, !.ok = t.ok,
                                          !.error = IF t.ok THEN "None" ELSE t.error,
                                          !.out = t.sizes, !.reduced = t.reduced]
    /\ UNCHANGED <<baseVars, artifactVars, tabVars, audioVars>>

(***************************************************************************)
(* TabularPreprocessor: survey record -> normalized and one-hot features   *)
(***************************************************************************)
\* fixed point: a feature value x is held as the integer x * NScale
NScale == 10

\* what MultiLabelEncoder.encode returns when no field knows the label
NoneValue == -1

\* the fields the transformers were fitted on, in fitting order (the first
\* and last numeric and two of the categorical fields of the survey form)
QuantitySchema == <<"BMI", "SleepTime">>
CategoricalSchema == <<"Sex", "Diabetic">>

\* a field outside the schema
ExtraField == "Height"

_no_yes == ("no" :> 0) @@ ("yes" :> 1)
_sex == ("female" :> 0) @@ ("male" :> 1)
_race ==
    ("white" :> 0) @@ ("black" :> 1) @@ ("asian" :> 2)
        @@ ("american indian / alaskan native" :> 3) @@ ("other" :> 4) @@ ("hispanic" :> 5)
_diabetic ==
    ("no" :> 0) @@ ("yes" :> 1) @@ ("yes (during pregnancy)" :> 2)
        @@ ("no, borderline diabetes" :> 3)

_gen_health ==
    ("excellent" :> 0) @@ ("very good" :> 1) @@ ("good" :> 2) @@ ("fair" :> 3) @@ ("poor" :> 4)
_age_category ==
    ("18-24" :> 0) @@ ("25-29" :> 1) @@ ("30-34" :> 2) @@ ("35-39" :> 3) @@ ("40-44" :> 4)
        @@ ("45-49" :> 5) @@ ("50-54" :> 6) @@ ("55-59" :> 7) @@ ("60-64" :> 8)
        @@ ("65-69" :> 9) @@ ("70-74" :> 10) @@ ("75-79" :> 11) @@ ("80 or older" :> 12)

\* MultiLabelEncoder.__fields, in order
MultiLabelFields == <<_no_yes, _sex, _race, _age_category, _diabetic, _gen_health>>

\* str.lower on the labels the model draws
category_lower(category) ==
    CASE category = "Male" -> "male"
      [] category = "Yes" -> "yes"
      [] OTHER -> category

\* MultiLabelEncoder.encode: the code of the first field that knows the
\* lowered label; None when no field does
RECURSIVE MultiLabelEncodeFrom(_, _)
MultiLabelEncodeFrom(category, index) ==
    IF index > Len(MultiLabelFields) THEN NoneValue
    ELSE IF category \in DOMAIN MultiLabelFields[index] THEN MultiLabelFields[index][category]
    ELSE MultiLabelEncodeFrom(category, index + 1)

\* a plausible slip: "if label" in place of "if label is not None"
RECURSIVE MultiLabelEncodeFromTruthy(_, _)
MultiLabelEncodeFromTruthy(category, index) ==
    IF index > Len(MultiLabelFields) THEN NoneValue
    ELSE IF category \in DOMAIN MultiLabelFields[index] /\ MultiLabelFields[index][category] # 0
    THEN MultiLabelFields[index][category]
    ELSE MultiLabelEncodeFromTruthy(category, index + 1)

MultiLabelEncodeTruthy(category) == MultiLabelEncodeFromTruthy(category_lower(category), 1)

MultiLabelEncode(category) == MultiLabelEncodeFrom(category_lower(category), 1)

\* MultiLabelEncoder.options(field): the lowered keys of the field
options(field) == {category_lower(label) : label \in DOMAIN field}

\* the categories of each categorical field the encoder was fitted on, sorted
FittedCategories == <<<<0, 1>>, <<0, 1, 2, 3>>>>

\* labels a categorical answer is drawn from, per field: the form's options,
\* a label of another field, and one no field knows
SexLabels == {"female", "Male", "other", "unrecognised"}
DiabeticLabels == {"no", "Yes", "yes (during pregnancy)", "no, borderline diabetes", "unrecognised"}

\* a dict as the sequence of its items, in insertion order
Item(name, value) == [name |-> name, value |-> value]

\* the record with its first field left out / with a field outside the schema
\* added / with its first field replaced by one outside the schema / with its
\* fields in reverse order
Variants(items) ==
    {items, Tail(items), Append(items, Item(ExtraField, 0)),
     <<Item(ExtraField, 0)>> \o Tail(items),
     [i \in 1..Len(items) |-> items[Len(items) + 1 - i]]}

QuantityRecords ==
    UNION {Variants(<<Item("BMI", b), Item("SleepTime", t)>>) : b \in 0..MaxValue, t \in 0..MaxValue}

CategoricalRecords ==
    UNION {Variants(<<Item("Sex", MultiLabelEncode(x)), Item("Diabetic", MultiLabelEncode(d))>>) :
              x \in SexLabels, d \in DiabeticLabels}

\* the persisted transformers are not part of the source tree: whether they
\* were fitted on a DataFrame (and so check column names), how the encoder
\* treats unknown categories, and the fitted mean and deviation are drawn.
Transformers ==
    [named : BOOLEAN, handle_unknown : {"error", "ignore"}, mean : 0..MaxStat, scale : 1..MaxScale]

NoTabCall ==
    [op |-> "None", impl |-> "", done |-> FALSE, categorical |-> <<>>, quantity |-> <<>>,
     field |-> 0, option |-> "",
     fitted |-> [named |-> FALSE, handle_unknown |-> "error", mean |-> 0, scale |-> 1],
     ok |-> FALSE, error |-> "None", out |-> <<>>, dtype |-> "None"]

\* an array returned / an exception raised
Array(row, dtype) == [ok |-> TRUE, row |-> row, dtype |-> dtype, error |-> "None"]

ArrayRaised(kind) == [ok |-> FALSE, row |-> <<>>, dtype |-> "None", error |-> kind]

\* TabularPreprocessor._as_sklearn_input: pd.DataFrame(x, columns=list(x.keys()),
\* index=[0]): one row, the columns in the order of the dict's keys
_as_sklearn_input(x) ==
    [columns |-> [i \in 1..Len(x) |-> x[i].name], row |-> [i \in 1..Len(x) |-> x[i].value]]

\* sklearn's input validation in transform: the column names must be the
\* fitted ones, in order, when the transformer was fitted with names, and
\* the number of columns must be the fitted one
FeaturesMatch(frame, schema, fitted) ==
    /\ fitted.named => frame.columns = schema
    /\ Len(frame.columns) = Len(schema)

\* StandardScaler.transform: (x - mean_) / scale_ per column, float64
StandardScalerTransform(frame, fitted) ==
    IF ~FeaturesMatch(frame, QuantitySchema, fitted) THEN ArrayRaised("ValueError")
    ELSE Array([i \in 1..Len(frame.row) |-> ((frame.row[i] - fitted.mean) * NScale) \div fitted.scale],
               "float64")

\* the one-hot block of value among categories: 1 at the value's position
OneHot(value, categories) ==
    [j \in 1..Len(categories) |-> IF categories[j] = value THEN NScale ELSE 0]

RECURSIVE Blocks(_, _)
Blocks(row, index) ==
    IF index > Len(row) THEN <<>>
    ELSE OneHot(row[index], FittedCategories[index]) \o Blocks(row, index + 1)

Known(value, categories) == \E j \in 1..Len(categories) : categories[j] = value

\* OneHotEncoder.transform(...).toarray(): a value outside the fitted
\* categories raises with handle_unknown = "error" and gives an all-zero
\* block with "ignore"
OneHotEncoderTransform(frame, fitted) ==
    IF ~FeaturesMatch(frame, CategoricalSchema, fitted) THEN ArrayRaised("ValueError")
    ELSE IF /\ fitted.handle_unknown = "error"
            /\ \E i \in 1..Len(frame.row) : ~Known(frame.row[i], FittedCategories[i])
    THEN ArrayRaised("ValueError")
    ELSE Array(Blocks(frame.row, 1), "float64")

\* TabularPreprocessor.normalize
normalize(data, fitted) == StandardScalerTransform(_as_sklearn_input(data), fitted)

\* an encode that hands the columns to the encoder in alphabetical order
encode_sorted(data, fitted) ==
    OneHotEncoderTransform(
        _as_sklearn_input([i \in 1..Len(data) |-> data[Len(data) + 1 - i]]), fitted)

\* TabularPreprocessor.encode
encode(data, fitted) == OneHotEncoderTransform(_as_sklearn_input(data), fitted)

\* numpy type promotion of two float dtypes
Promote(a, b) == IF a = "float64" \/ b = "float64" THEN "float64" ELSE "float32"

\* np.concatenate([a, b], axis=1, dtype=dtype); dtype "None" when not given
concatenate(a, b, dtype) ==
    Array(a.row \o b.row, IF dtype = "None" THEN Promote(a.dtype, b.dtype) ELSE dtype)

\* the dtype argument of __call__'s np.concatenate: self._dtype (np.float32)
\* in the pipeline package, none in sonixhub
ConcatDtype(impl) == IF impl = "pipeline" THEN "float32" ELSE "None"

\* a __call__ that hands back the numeric features alone when encoding fails
TabularCallLenient(impl, categorical, quantity, fitted) ==
    LET q == normalize(quantity, fitted)
        c == encode(categorical, fitted)
    IN  IF ~q.ok THEN q
        ELSE IF ~c.ok THEN q
        ELSE concatenate(q, c, ConcatDtype(impl))

\* a __call__ that concatenates in the order of its arguments
TabularCallCategoricalFirst(impl, categorical, quantity, fitted) ==
    LET q == normalize(quantity, fitted)
        c == encode(categorical, fitted)
    IN  IF ~q.ok THEN q
        ELSE IF ~c.ok THEN c
        ELSE concatenate(c, q, ConcatDtype(impl))

\* TabularPreprocessor.__call__(categorical, quantity)
TabularCall(impl, categorical, quantity, fitted) ==
    LET q == normalize(quantity, fitted)
        c == encode(categorical, fitted)
    IN  IF ~q.ok THEN q
        ELSE IF ~c.ok THEN c
        ELSE concatenate(q, c, ConcatDtype(impl))

TabularStart ==
    \/ \E field \in 1..Len(MultiLabelFields) : \E option \in options(MultiLabelFields[field]) :
         tabCall = [NoTabCall EXCEPT !.op = "MultiLabelEncoder.encode", !.field = field,
                                     !.option = option]
    \/ \E impl \in {"pipeline", "sonixhub"}, fitted \in Transformers :
        \/ \E categorical \in CategoricalRecords, quantity \in QuantityRecords :
             tabCall = [NoTabCall EXCEPT !.op = "__call__", !.impl = impl, !.fitted = fitted,
                                         !.categorical = categorical, !.quantity = quantity]
        \/ \E categorical \in CategoricalRecords :
             tabCall = [NoTabCall EXCEPT !.op = "encode", !.impl = impl, !.fitted = fitted,
                                         !.categorical = categorical]
        \/ \E quantity \in QuantityRecords :
             tabCall = [NoTabCall EXCEPT !.op = "normalize", !.impl = impl, !.fitted = fitted,
                                         !.quantity = quantity]

TabularIdle == tabCall = NoTabCall

Returned(call, r) ==
    [call EXCEPT !.done = TRUE, !.ok = r.ok, !.error = r.error, !.out = r.row, !.dtype = r.dtype]

\* tabular_preprocessor(categorical=..., quantity=...)
CallTabular ==
    /\ tabCall.op = "__call__" /\ ~tabCall.done
    /\ tabCall' = Returned(tabCall, TabularCall(tabCall.impl, tabCall.categorical,
                                                tabCall.quantity, tabCall.fitted))
    /\ UNCHANGED <<baseVars, artifactVars, shapeVars, audioVars>>

\* tabular_preprocessor.encode(categorical)
CallEncode ==
    /\ tabCall.op = "encode" /\ ~tabCall.done
    /\ tabCall' = Returned(tabCall, encode(tabCall.categorical, tabCall.fitted))
    /\ UNCHANGED <<baseVars, artifactVars, shapeVars, audioVars>>

\* self.encode(option) of an ExtraForm getter, option picked from
\* self.options(field)
CallFormEncode ==
    /\ tabCall.op = "MultiLabelEncoder.encode" /\ ~tabCall.done
    /\ LET label == MultiLabelEncode(tabCall.option)
       IN  tabCall' = [tabCall EXCEPT !.done = TRUE, !.ok = TRUE, !.out = <<label>>]
    /\ UNCHANGED <<baseVars, artifactVars, shapeVars, audioVars>>

\* tabular_preprocessor.normalize(quantity)
CallNormalize ==
    /\ tabCall.op = "normalize" /\ ~tabCall.done
    /\ tabCall' = Returned(tabCall, normalize(tabCall.quantity, tabCall.fitted))
    /\ UNCHANGED <<baseVars, artifactVars, shapeVars, audioVars>>

\* the pool of an encoder block on [1, channels, length]
PoolForward ==
    /\ shapeCall.op = "MaxPool1d" /\ ~shapeCall.done
    /\ LET p == MaxPool1d(<<1, shapeCall.args[1], shapeCall.args[2]>>)
       IN  shapeCall' = [shapeCall EXCEPT !.done = TRUE, !.ok = p.ok, !.error = p.error,
                                          !.out = p.shape]
    /\ UNCHANGED <<baseVars, artifactVars, tabVars, audioVars>>

\* LSTMModule(input_shape=(channels, length), rnn_depth)(x), x of shape
\* [batch, channels, length]
LSTMForward ==
    /\ shapeCall.op = "LSTMModule.forward" /\ ~shapeCall.done
    /\ LET h == LSTMModuleFlow(shapeCall.args, <<shapeCall.args[2], shapeCall.args[3]>>,
                               shapeCall.depths[1])
       IN  shapeCall' = [shapeCall EXCEPT !.done = TRUE, !.ok = h.kind \in {"hidden", "sequence"},
                                          !.error = IF h.kind \in {"hidden", "sequence"}
                                                    THEN "None" ELSE h.kind,
                                          !.kind = h.kind, !.trace = h.chain, !.out = h.shape]
    /\ UNCHANGED <<baseVars, artifactVars, tabVars, audioVars>>

\* get_base_cardionet's pipeline, or one that differs from it in n_mfcc or
\* average_by, called on a source that decodes to args[1] samples
PipelineForward ==
    /\ shapeCall.op = "ETLPipeline.forward" /\ ~shapeCall.done
    /\ LET cfg == [ProdPipeline EXCEPT !.n_mfcc = shapeCall.args[2],
                                       !.average_by = shapeCall.average_by]
           t == ETLPipelineForward(shapeCall.args[1], cfg)
       IN  shapeCall' = [shapeCall EXCEPT !.done = TRUE, !.ok = t.ok,
                                          !.error = IF t.ok THEN "None" ELSE t.error,
                                          !.out = t.sizes, !.reduced = t.reduced]
    /\ UNCHANGED <<baseVars, artifactVars, tabVars, audioVars>>

(***************************************************************************)
(* AudioConvertor and AudioRecorder: uploaded or recorded audio, converted *)
(* through temporary files and checked for its duration                    *)
(***************************************************************************)
\* names of uploaded files
SourceNames == {"heart.wav", "beat.rec.aac"}

\* filename.split(".")[-1]
LastPart ==
    [name \in SourceNames |->
        CASE name = "heart.wav" -> "wav"
          [] name = "beat.rec.aac" -> "aac"]

\* valid_extensions of utils.recorder.AudioRecorder
valid_extensions == {"wav", "mp3", "ogg", "flac", "m4a"}

\* nothing was uploaded or recorded
NoUpload == [name |-> "None", duration |-> 0]

\* an UploadedFile, or the bytes of a recording (name "")
Sources == [name : SourceNames \cup {""}, duration : 0..MaxAudioDuration] \cup {NoUpload}

NoAudioCall ==
    [op |-> "None", impl |-> "", choice |-> "", min_duration |-> 0, source |-> NoUpload,
     outcome |-> "None", error |-> "None", data |-> "None", error_shown |-> FALSE,
     wrote |-> {}]

\* AudioConvertor.check_format: the filename when its extension is not valid, else None
check_format(filename) == IF LastPart[filename] \notin valid_extensions THEN filename ELSE "None"

\* AudioConvertor.define_location at time now
define_location(now, filename) == <<now, filename>>

\* what a call leaves behind: [outcome, error, data, root, wrote]
Left(outcome, error, data, root, wrote) ==
    [outcome |-> outcome, error |-> error, data |-> data, root |-> root, wrote |-> wrote,
     error_shown |-> FALSE]

\* AudioConvertor.clear(paths) on the files root: ValueError at the first
\* path that is not a file, the earlier ones being removed already
RECURSIVE clear(_, _, _)
clear(paths, root, i) ==
    IF i > Len(paths) THEN [ok |-> TRUE, root |-> root]
    ELSE IF paths[i] \notin root THEN [ok |-> FALSE, root |-> root]
    ELSE clear(paths, root \ {paths[i]}, i + 1)

\* AudioConvertor.__call__(source) on the files root, the first time.time()
\* giving now and the second now + tick. ffmpeg exits with an error when the
\* output path is the input path or an existing file (no overwrite flag is
\* passed) and when ~ffmpeg_ok (the encoder fails), leaving a partial output
\* file or none.
ConvertorCall(root, now, filename, tick, ffmpeg_ok, partial) ==
    IF check_format(filename) = "None" THEN Left("returned", "None", "audio", root, {})
    ELSE LET in_path == define_location(now, filename)
             written == root \cup {in_path}
             out_path == define_location(now + tick, filename)
         IN  IF in_path = out_path \/ out_path \in written
             THEN Left("raised", "ffmpeg.Error", "None", written, {in_path})
             ELSE IF ~ffmpeg_ok
             THEN Left("raised", "ffmpeg.Error", "None",
                       IF partial THEN written \cup {out_path} ELSE written,
                       {in_path} \cup (IF partial THEN {out_path} ELSE {}))
             ELSE LET cleared == clear(<<in_path, out_path>>, written \cup {out_path}, 1)
                  IN  IF cleared.ok
                      THEN Left("returned", "None", "audio", cleared.root, {in_path, out_path})
                      ELSE Left("raised", "ValueError", "None", cleared.root, {in_path, out_path})

\* the duration test of both recorders: the audio when it is long enough,
\* else st.error and None
check_duration_gate(duration, min_duration, root) ==
    IF duration >= min_duration THEN Left("returned", "None", "audio", root, {})
    ELSE [Left("returned", "None", "None", root, {}) EXCEPT !.error_shown = TRUE]

\* utils.recorder.AudioRecorder._load_audio: the convertor's result
\* utils.audio.recorder.AudioRecorder._load_audio: the inherited convertor
\* (not part of the sources; taken to convert or to raise), then __check_duration
_load_audio(impl, src, min_duration, root, now, tick, ffmpeg_ok, partial) ==
    IF src = NoUpload THEN Left("returned", "None", "None", root, {})
    ELSE LET c == ConvertorCall(root, now, src.name, tick, ffmpeg_ok, partial)
         IN  IF impl = "utils.recorder" THEN c
             ELSE IF ~ffmpeg_ok THEN Left("raised", "Error", "None", root, {})
             ELSE check_duration_gate(src.duration, min_duration, root)

\* _record_audio of both recorders
_record_audio(impl, src, min_duration, root) ==
    IF src = NoUpload THEN Left("returned", "None", "None", root, {})
    ELSE check_duration_gate(src.duration, min_duration, root)

\* AudioRecorder.get_audio
get_audio(impl, choice, src, min_duration, root, now, tick, ffmpeg_ok, partial) ==
    IF choice = "Upload"
    THEN _load_audio(impl, src, min_duration, root, now, tick, ffmpeg_ok, partial)
    ELSE _record_audio(impl, src, min_duration, root)

AudioStart ==
    /\ rootDir = {}
    /\ clock = 0
    /\ audioCall = NoAudioCall

AudioIdle == AudioStart

\* time passes between two calls
TimePasses ==
    /\ clock < MaxClock
    /\ clock' = clock + 1
    /\ UNCHANGED <<rootDir, audioCall>>
    /\ UNCHANGED <<baseVars, artifactVars, shapeVars, tabVars>>

\* AudioConvertor(root_dir, valid_extensions, "wav")(source)
CallConvertor(name, tick, ffmpeg_ok, partial) ==
    /\ clock + tick <= MaxClock
    /\ LET c == ConvertorCall(rootDir, clock, name, tick, ffmpeg_ok, partial)
       IN  /\ rootDir' = c.root
           /\ audioCall' = [NoAudioCall EXCEPT !.op = "AudioConvertor.__call__",
                                !.source = [name |-> name, duration |-> 0],
                                !.outcome = c.outcome, !.error = c.error, !.data = c.data,
                                !.wrote = c.wrote]
    /\ clock' = clock + tick
    /\ UNCHANGED <<baseVars, artifactVars, shapeVars, tabVars>>

\* AudioRecorder(duration=min_duration).get_audio() of either module, the
\* user having chosen to upload or to record and given src (or nothing)
CallGetAudio(impl, choice, src, min_duration, tick, ffmpeg_ok, partial) ==
    /\ clock + tick <= MaxClock
    /\ src = NoUpload \/ (choice = "Upload" <=> src.name \in SourceNames)
    /\ LET g == get_audio(impl, choice, src, min_duration, rootDir, clock, tick, ffmpeg_ok, partial)
       IN  /\ rootDir' = g.root
           /\ audioCall' = [NoAudioCall EXCEPT !.op = "get_audio", !.impl = impl,
                                !.choice = choice, !.min_duration = min_duration,
                                !.source = src, !.outcome = g.outcome, !.error = g.error,
                                !.data = g.data, !.wrote = g.wrote,
                                !.error_shown = g.error_shown]
    /\ clock' = clock + tick
    /\ UNCHANGED <<baseVars, artifactVars, shapeVars, tabVars>>

ExtraIdle == ArtifactIdle /\ ShapeIdle /\ TabularIdle /\ AudioIdle

InitShapes == LoaderIdle /\ SessionStart /\ PageStart /\ PredictIdle /\ ArtifactIdle /\ ShapeStart /\ TabularIdle /\ AudioIdle

NextShapes ==
    \/ ConvShapeInfo
    \/ NewEncoder
    \/ ModelShapeForward
    \/ MFCCForward
    \/ PoolForward
    \/ LSTMForward
    \/ PipelineForward

SpecShapes == InitShapes /\ [][NextShapes]_vars

InitArtifacts == LoaderIdle /\ SessionStart /\ PageStart /\ PredictIdle /\ ArtifactStart /\ ShapeIdle /\ TabularIdle /\ AudioIdle

NextArtifacts ==
    \/ GetBaseCardionet
    \/ \E f \in HubFiles : NewPredictionSession(f)
    \/ \E d \in Dirnames : NewPipelineTabular(d)
    \/ NewSonixhubTabular
    \/ \E obj \in instances : UseInstance(obj)

SpecArtifacts == InitArtifacts /\ [][NextArtifacts]_vars

InitAudio == LoaderIdle /\ SessionStart /\ PageStart /\ PredictIdle /\ ArtifactIdle /\ ShapeIdle /\ TabularIdle /\ AudioStart

NextAudio ==
    \/ TimePasses
    \/ \E name \in SourceNames, tick \in 0..1, ffmpeg_ok \in BOOLEAN, partial \in BOOLEAN :
          CallConvertor(name, tick, ffmpeg_ok, partial)
    \/ \E impl \in {"utils.recorder", "utils.audio.recorder"}, choice \in {"Upload", "Record"},
          src \in Sources, min_duration \in 1..MaxDuration, tick \in 0..1, ffmpeg_ok \in BOOLEAN :
          CallGetAudio(impl, choice, src, min_duration, tick, ffmpeg_ok, FALSE)

SpecAudio == InitAudio /\ [][NextAudio]_vars

InitTabular == LoaderIdle /\ SessionStart /\ PageStart /\ PredictIdle /\ ArtifactIdle /\ ShapeIdle /\ TabularStart /\ AudioIdle

NextTabular ==
    \/ CallTabular
    \/ CallEncode
    \/ CallNormalize
    \/ CallFormEncode

SpecTabular == InitTabular /\ [][NextTabular]_vars

InitPredict == LoaderIdle /\ SessionStart /\ PageStart /\ PredictStart /\ ExtraIdle

NextPredict ==
    \/ \E c \in Callers, src \in PredictSources : BeginPredict(c, src)
    \/ \E c \in Callers : Load(c)
    \/ \E c \in Callers, fails \in BOOLEAN : Extract(c, fails)
    \/ \E c \in Callers, fails \in BOOLEAN : Infer(c, fails)

SpecPredict == InitPredict /\ [][NextPredict]_vars

InitPage == LoaderIdle /\ SessionStart /\ PageStart /\ PredictIdle /\ ExtraIdle

NextPage == \E in \in PageInputs, label \in {Classes[i] : i \in 1..Len(Classes)} : PageRerun(in, label)

SpecPage == InitPage /\ [][NextPage]_vars

InitBinding == InitPage

NextBinding ==
    \E filename \in {UnoModel, MultimodalModel}, n \in 0..MaxInputs :
        \E args \in [1..n -> 1..MaxAudio] : SessionInvoke(filename, args)

SpecBinding == InitBinding /\ [][NextBinding]_vars

InitSession == LoaderIdle /\ SessionStart /\ PageStart /\ PredictIdle /\ ExtraIdle

NextSession ==
    \/ \E l \in LogitVectors : ModelRun(l)
    \/ SessionCall
    \/ WrapperCall

SpecSession == InitSession /\ [][NextSession]_vars

InitLoader == LoaderStart /\ SessionStart /\ PageStart /\ PredictIdle /\ ExtraIdle

NextLoader ==
    \/ \E w \in Waveforms : NewSource(w)
    \/ UploadForward
    \/ SafeLoaderForward

SpecLoader == InitLoader /\ [][NextLoader]_vars

(***************************************************************************)
(* Properties of the audio loaders (SpecLoader)                            *)
(***************************************************************************)
LoaderOuts == {uploadOut, safeOut} \ {NoTensor}

IsNonSilent(w) == \E i \in 1..Len(w) : w[i] # 0

\* C1: a decoded waveform shorter than duration*sample_rate comes back from
\* Upload.forward and from SafeLoader.forward as one channel of exactly
\* duration*sample_rate samples: the original samples in order, then zeros only.
C1_ShortIsZeroPadded ==
    Len(source) < loaderCfg.duration * loaderCfg.sample_rate =>
        \A out \in LoaderOuts :
            /\ Len(out) = 1
            /\ Len(out[1]) = loaderCfg.duration * loaderCfg.sample_rate
            /\ \A i \in 1..Len(source) : out[1][i] = source[i]
            /\ \A i \in (Len(source) + 1)..Len(out[1]) : out[1][i] = 0

C1_Witness ==
    /\ uploadOut # NoTensor /\ safeOut # NoTensor
    /\ Len(source) > 0
    /\ Len(source) < loaderCfg.duration * loaderCfg.sample_rate
    /\ IsNonSilent(source)

\* C2: a decoded waveform longer than duration*sample_rate comes back from
\* both loaders as exactly its first duration*sample_rate samples, in order.
C2_LongIsTruncated ==
    Len(source) > loaderCfg.duration * loaderCfg.sample_rate =>
        \A out \in LoaderOuts :
            /\ Len(out) = 1
            /\ out[1] = SubSeq(source, 1, loaderCfg.duration * loaderCfg.sample_rate)

C2_Witness ==
    /\ uploadOut # NoTensor /\ safeOut # NoTensor
    /\ Len(source) > loaderCfg.duration * loaderCfg.sample_rate
    /\ IsNonSilent(SubSeq(source, loaderCfg.length + 1, Len(source)))
    /\ Len(source) \div loaderCfg.sample_rate = loaderCfg.duration

\* C3: for every input length the conditional fix of Upload.forward and the
\* unconditional fix of SafeLoader.forward agree: both results have exactly
\* duration*sample_rate samples, they are identical, and an input already of
\* the target length is returned unchanged.
C3_LoadersAgree ==
    /\ \A out \in LoaderOuts :
            /\ Len(out[1]) = loaderCfg.duration * loaderCfg.sample_rate
            /\ Len(source) = loaderCfg.duration * loaderCfg.sample_rate => out[1] = source
    /\ (uploadOut # NoTensor /\ safeOut # NoTensor) => uploadOut = safeOut

C3_Witness ==
    /\ uploadOut # NoTensor /\ safeOut # NoTensor
    /\ Len(source) = loaderCfg.duration * loaderCfg.sample_rate
    /\ IsNonSilent(source)

(***************************************************************************)
(* Properties of softmax, argmax and label decoding (SpecSession)          *)
(***************************************************************************)
IsProbability(p) == p.k = "fin" /\ 0 <= p.v /\ p.v <= PScale

SumsToOne(probs) ==
    LET total == FSum(probs)
    IN  /\ total.k = "fin"
        /\ PScale - SumTolerance <= total.v
        /\ total.v <= PScale + SumTolerance

IsDistribution(probs) ==
    /\ \A i \in 1..Len(probs) : IsProbability(probs[i])
    /\ SumsToOne(probs)

\* C4: for every logits vector the probabilities returned by
\* PredictionSession.forward and by BaseWrapper.forward each lie in [0,1]
\* and sum to 1.0 within 1e-4.
C4_ProbabilitiesNormalised ==
    /\ sessOut # NoOutput => IsDistribution(sessOut.probs)
    /\ wrapOut # NoOutput => IsDistribution(wrapOut.probs)

\* index i holds a largest probability of probs
IsLargest(probs, i) == \A j \in 1..Len(probs) : FLeq(probs[j], probs[i])

\* C5: the predicted label is the class name at the index of the largest
\* probability, it is a member of the fixed class list, and in
\* PredictionSession it is a key of the returned mapping whose value is the
\* maximum of that mapping.
C5_LabelIsArgmax ==
    /\ sessOut # NoOutput =>
          /\ \E i \in 1..Len(Classes) :
                sessOut.predict = Classes[i] /\ IsLargest(sessOut.probs, i)
          /\ sessOut.predict \in DOMAIN sessOut.outputs
          /\ \A c \in DOMAIN sessOut.outputs :
                FLeq(sessOut.outputs[c], sessOut.outputs[sessOut.predict])
    /\ wrapOut # NoOutput =>
          \E i \in 1..Len(Classes) :
              wrapOut.preds = Classes[i] /\ IsLargest(wrapOut.probs, i)

(***************************************************************************)
(* Properties of the Diagnostics page (SpecPage)                           *)
(***************************************************************************)
\* C6: with audio loaded, answer "No" invokes exactly the audio-only session
\* on the audio alone; answer "Yes" with the survey submitted invokes exactly
\* the multimodal session on the audio and the preprocessed survey; the
\* multimodal session is never invoked without survey data; in every other
\* state no session is invoked.
C6_RoutingBySurveyAnswer ==
    /\ (pageInput.audio # NoAudio /\ pageInput.radio = "No") =>
          pageCalls = <<[session |-> UnoModel, inputs |-> <<pageInput.audio>>]>>
    /\ (pageInput.audio # NoAudio /\ pageInput.radio = "Yes" /\ pageInput.submit) =>
          pageCalls = <<[session |-> MultimodalModel,
                         inputs |-> <<pageInput.audio,
                                      <<"tabular", pageInput.quantity, pageInput.categorical>>>>]>>
    /\ \A i \in 1..Len(pageCalls) :
          pageCalls[i].session = MultimodalModel =>
              /\ pageInput.submit
              /\ Len(pageCalls[i].inputs) = 2
    /\ (pageInput.radio = "Default" \/ (pageInput.radio = "Yes" /\ ~pageInput.submit)) =>
          pageCalls = <<>>

C6_Witness ==
    /\ pageInput.audio # NoAudio
    /\ pageInput.radio = "Yes"
    /\ pageInput.submit
    /\ Len(pageCalls) = 1
    /\ pageOuts # NoReturn

\* C24: the classification report says "the absence of deviations from the
\* norm" exactly when the predicted label is healthy (or normal), and
\* "deviations from the norm" exactly when it is another class that is not
\* the artifact class.
C24_ReportMatchesLabel ==
    pageReport.kind = "classification"
        => /\ pageReport.indicates = Absence <=> pageOuts[1] \in {"healthy", "normal"}
           /\ pageReport.indicates = Deviations <=> pageOuts[1] \notin {"healthy", "normal", "artifact"}

\* C27: a session called with arrays binds the k-th array to the k-th input
\* name; it runs the model only on a binding that holds every supplied array
\* and every input name, and does not run it when the two counts differ.
C27_NoTruncatedBinding ==
    sessionCall.outcome = "ran"
        => /\ Len(sessionCall.args) = Len(InputNames(sessionCall.session))
           /\ sessionCall.inputs =
                 {<<InputNames(sessionCall.session)[k], sessionCall.args[k]>> :
                      k \in 1..Len(sessionCall.args)}

(***************************************************************************)
(* Properties of concurrent predict calls (SpecPredict)                    *)
(***************************************************************************)
\* C7: after define_model no predict call changes a model weight or a stored
\* normalisation statistic: both stay equal to what was loaded.
C7_WeightsNeverChange ==
    /\ model.weights = stateDict.weights
    /\ model.stats = stateDict.stats

C7_Witness ==
    /\ \A c \in Callers : calls[c].pc = "Done"
    /\ \E k \in 1..Len(Classes) : model.weights[k] # 0
    /\ \E c \in Callers : calls[c].output % (MaxStat + 1) # model.stats

\* what one predict call on src returns when it runs alone on the loaded model
Alone(src) ==
    WrapperOutputOf(
        ModelForward(define_model(FreshModel, stateDict),
                     mfcc(UploadForwardOf(PredictCfg, src.wave))).logits)

\* C8: a finished predict call returned what the call on its source returns
\* when run alone on the loaded model, whatever the other callers did in the
\* meantime; hence equal sources give equal results, and preds is one of the
\* three fixed classes.
C8_ResultDependsOnSourceOnly ==
    /\ \A c \in Callers :
          calls[c].pc = "Done" =>
              /\ calls[c].result = Alone(calls[c].source)
              /\ calls[c].result.preds \in {"artifact", "healthy", "abnormal"}
    /\ \A c, d \in Callers :
          (calls[c].pc = "Done" /\ calls[d].pc = "Done" /\ calls[c].source = calls[d].source)
              => calls[c].result = calls[d].result

C8_Witness ==
    \E c, d \in Callers :
        /\ c # d
        /\ calls[c].pc = "Done" /\ calls[d].pc = "Done"
        /\ calls[c].source # calls[d].source
        /\ calls[c].result # calls[d].result

\* C9: an exception raised by a stage of predict is what the caller gets: the
\* call has failed with exactly that exception, no result is returned in its
\* place, and no stage has run more than once.
C9_ErrorsPropagateUnchanged ==
    \A c \in Callers :
        /\ calls[c].thrown # NoThrow =>
              /\ calls[c].pc = "Failed"
              /\ calls[c].error = calls[c].thrown.kind
              /\ calls[c].result = NoOutput
        /\ calls[c].pc = "Failed" => calls[c].thrown # NoThrow
        /\ \A s \in Stages : calls[c].runs[s] <= 1

C9_Witness ==
    /\ \E c \in Callers : calls[c].thrown.stage = "Loading" /\ calls[c].pc = "Failed"
    /\ \E c \in Callers : calls[c].thrown.stage = "Extracting" /\ calls[c].pc = "Failed"

StageSteps ==
    {<<"Idle", "Loading">>,
     <<"Loading", "Extracting">>, <<"Extracting", "Inferring">>, <<"Inferring", "Done">>,
     <<"Loading", "Failed">>, <<"Extracting", "Failed">>, <<"Inferring", "Failed">>,
     <<"Done", "Loading">>, <<"Failed", "Loading">>}

\* what a call has done by the time it is in each stage
StageHistoryOk(call) ==
    /\ call.pc = "Loading" =>
          call.runs = [s \in Stages |-> 0] /\ call.waveform = NoTensor /\ call.output = NoFeatures
    /\ call.pc = "Extracting" =>
          /\ call.runs = [s \in Stages |-> IF s = "Loading" THEN 1 ELSE 0]
          /\ call.waveform # NoTensor /\ call.output = NoFeatures
    /\ call.pc = "Inferring" =>
          /\ call.runs = [s \in Stages |-> IF s = "Inferring" THEN 0 ELSE 1]
          /\ call.waveform # NoTensor /\ call.output # NoFeatures
    /\ call.pc = "Done" =>
          call.runs = [s \in Stages |-> 1] /\ call.result # NoOutput

\* C13: within one predict call the stages run in the order Loading,
\* Extracting, Inferring: extraction starts only once loading has returned a
\* waveform, inference only once extraction has returned; a call that is Done
\* or Failed runs no further stage (the caller's next step is a new call,
\* starting again at Loading with nothing run); a failure leads from a
\* running stage to Failed.
C13_StagesRunInOrder ==
    [][\A c \in Callers :
          /\ StageHistoryOk(calls[c])
          /\ StageHistoryOk(calls'[c])
          /\ calls'[c] # calls[c] =>
                /\ <<calls[c].pc, calls'[c].pc>> \in StageSteps
                /\ calls[c].pc \in {"Done", "Failed"} =>
                      /\ calls'[c].runs = [s \in Stages |-> 0]
                      /\ calls'[c].result = NoOutput
                      /\ calls'[c].thrown = NoThrow]_vars

C13_Witness ==
    \E c, d \in Callers :
        /\ calls[c].pc = "Failed" /\ calls[c].thrown.stage = "Extracting"
        /\ calls[c].runs = [s \in Stages |-> IF s = "Inferring" THEN 0 ELSE 1]
        /\ calls[d].pc = "Failed" /\ calls[d].thrown.stage = "Inferring"
        /\ calls[d].runs = [s \in Stages |-> 1]

\* the files an object of this class and directory is made from
RequiredPaths(class, dirname) ==
    IF class = "BaseWrapper" THEN {WeightsPath}
    ELSE IF class = "PredictionSession" THEN {}
    ELSE {_get_path(dirname, TransformerFiles[i]) : i \in 1..2}

\* C11: when the weights file or a transformer file of the object's
\* directory is absent, constructing the BaseWrapper / TabularPreprocessor
\* fails (here: with whatever error the loader raises for a missing file),
\* so no predict, normalize or encode call is ever made on such an object.
C11_MissingArtifactFailsConstruction ==
    /\ lastCtor.class \in {"BaseWrapper", "pipeline.TabularPreprocessor",
                           "sonixhub.TabularPreprocessor"}
         /\ lastCtor.missing
       => lastCtor.outcome \in {"ArtifactMissingError", "FileNotFoundError", "FileExistsError"}
    /\ \A obj \in instances \cup uses :
         RequiredPaths(obj.class, obj.dirname) \subseteq fs

\* C14: every model file and fitted transformer is loaded at most once in
\* the process, and every constructed object holds the object of that one
\* load.
C14_LoadedAtMostOnce ==
    /\ \A path \in AllPaths : loads[path] <= 1
    /\ \A obj \in instances : \A i \in 1..Len(obj.parts) : obj.parts[i].serial = 1

\* C15: in both MFCCExtractor implementations average_by = "time" averages
\* over the frame axis and returns one vector of length n_mfcc, and
\* average_by = "mfcc" averages over the coefficient axis and returns one
\* vector of length num_frames.
C15_AverageByAxis ==
    shapeCall.op = "MFCCExtractor.forward" /\ shapeCall.done /\ shapeCall.average_by # "None"
        => /\ shapeCall.ok
           /\ shapeCall.reduced = {shapeCall.average_by}
           /\ shapeCall.out = <<1, IF shapeCall.average_by = "time"
                                   THEN shapeCall.args[1] ELSE shapeCall.args[2]>>

\* C17: BaselineRNNModel.forward returns logits of shape [batch, num_classes],
\* num_classes being the last entry of decoder_depth, and of shape
\* [num_classes] when batch = 1.
C17_LogitsShape ==
    shapeCall.op = "BaselineRNNModel.forward" /\ shapeCall.ok
        => LET batch == shapeCall.args[1]
               decoder_depth == shapeCall.depths[3]
               num_classes == decoder_depth[Len(decoder_depth)]
           IN  shapeCall.out = IF batch = 1 THEN <<num_classes>> ELSE <<batch, num_classes>>

\* C19: with padding = "same" and stride 1, _conv_shape_info reports
\* out_features = in_features for every kernel_size >= 1 and
\* in_features >= kernel_size.
C19_SamePaddingKeepsLength ==
    (/\ shapeCall.op = "_conv_shape_info" /\ shapeCall.done /\ shapeCall.padding = "same"
     /\ shapeCall.args[2] = 1 /\ shapeCall.args[4] >= shapeCall.args[1])
        => shapeCall.out[2] = shapeCall.args[4]

\* length floor-halved k times
RECURSIVE FloorHalved(_, _)
FloorHalved(length, k) == IF k = 0 THEN length ELSE FloorHalved(length \div 2, k - 1)

\* C20: an Encoder built with k channel widths on input length L has
\* output_shape [1, last width, L floor-halved k times]; in every block the
\* convolution leaves the length unchanged and the pool halves it, rounding
\* down.
C20_EncoderHalvesPerBlock ==
    shapeCall.op = "Encoder" /\ shapeCall.ok
        => LET encoder_depth == shapeCall.depths[1]
               k == Len(encoder_depth)
               L == shapeCall.args[2]
           IN  /\ shapeCall.out = <<1, encoder_depth[k], FloorHalved(L, k)>>
               /\ Len(shapeCall.trace) = k
               /\ \A i \in 1..k :
                    /\ shapeCall.trace[i][1] = <<1, encoder_depth[i], FloorHalved(L, i - 1)>>
                    /\ shapeCall.trace[i][2] = <<1, encoder_depth[i], FloorHalved(L, i - 1) \div 2>>

\* an encoder of two blocks was built on an odd length with an even kernel
C20_Witness ==
    /\ shapeCall.op = "Encoder" /\ shapeCall.ok
    /\ Len(shapeCall.depths[1]) = 2
    /\ shapeCall.args[2] % 2 = 1 /\ shapeCall.args[4] % 2 = 0
    /\ shapeCall.out[3] = 2

(***************************************************************************)
(* Properties of the tabular preprocessor (SpecTabular)                    *)
(***************************************************************************)
Names(items) == {items[i].name : i \in 1..Len(items)}

Fields(schema) == {schema[i] : i \in 1..Len(schema)}

\* the record lacks a field of the schema / holds a field outside it
LacksField(items, schema) == \E f \in Fields(schema) : f \notin Names(items)

HasForeignField(items, schema) == \E n \in Names(items) : n \notin Fields(schema)

\* a categorical field of the record holds a value its field was not fitted on
HasUnknownCategory(items) ==
    \E i \in 1..Len(items), k \in 1..Len(CategoricalSchema) :
        /\ items[i].name = CategoricalSchema[k]
        /\ ~\E j \in 1..Len(FittedCategories[k]) : FittedCategories[k][j] = items[i].value

Conforms(items, schema) == [i \in 1..Len(items) |-> items[i].name] = schema

Rejected(call, kind) == ~call.ok /\ call.error = kind /\ call.out = <<>>

RECURSIVE BlockOffset(_)
BlockOffset(k) == IF k = 1 THEN 0 ELSE BlockOffset(k - 1) + Len(FittedCategories[k - 1])

C18_EncodeRoundTrip ==
    (/\ tabCall.op = "encode" /\ tabCall.done
     /\ Conforms(tabCall.categorical, CategoricalSchema)
     /\ ~HasUnknownCategory(tabCall.categorical))
        => /\ tabCall.ok
           /\ Len(tabCall.out) = BlockOffset(Len(CategoricalSchema) + 1)
           /\ \A k \in 1..Len(CategoricalSchema) :
                LET ones == {j \in 1..Len(FittedCategories[k]) :
                                tabCall.out[BlockOffset(k) + j] = NScale}
                IN  /\ Cardinality(ones) = 1
                    /\ \A j \in ones : FittedCategories[k][j] = tabCall.categorical[k].value

\* "male" and "yes (during pregnancy)" were encoded
C18_Witness ==
    /\ tabCall.op = "encode" /\ tabCall.done /\ tabCall.ok
    /\ Conforms(tabCall.categorical, CategoricalSchema)
    /\ tabCall.categorical[1].value = 1 /\ tabCall.categorical[2].value = 2

\* output length of Keras pooling with pool size 2, stride 2, padding="same"
KerasSamePool(length) == (length + 1) \div 2

C22_LastHiddenStateOnly ==
    shapeCall.op = "LSTMModule.forward" /\ shapeCall.done
        => LET rnn_depth == shapeCall.depths[1]
               n == Len(rnn_depth)
           IN  /\ shapeCall.ok
               /\ shapeCall.kind = "hidden"
               /\ shapeCall.trace = [i \in 1..n |-> i]
               /\ shapeCall.out = <<1, shapeCall.args[1], rnn_depth[n]>>

\* two blocks of different hidden sizes ran on a batch of two
C22_Witness ==
    /\ shapeCall.op = "LSTMModule.forward" /\ shapeCall.done
    /\ shapeCall.depths[1] = <<2, 1>> /\ shapeCall.args[1] = 2
    /\ shapeCall.out = <<1, 2, 1>>

\* C23: with get_base_cardionet's pipeline (mono, n_mfcc = 52, average_by =
\* "time") the tensor ETLPipeline.forward returns has shape [1, 1, 52] and is
\* averaged over time, however many samples the source decodes to.
C23_ProductionInputShape ==
    /\ shapeCall.op = "ETLPipeline.forward" /\ shapeCall.done
    /\ shapeCall.args[2] = ProdPipeline.n_mfcc
    /\ shapeCall.average_by = ProdPipeline.average_by
    => /\ shapeCall.ok
       /\ shapeCall.out = <<1, 1, ProdPipeline.n_mfcc>>
       /\ shapeCall.reduced = {"time"}

\* an empty source went through the production pipeline
C23_Witness ==
    /\ shapeCall.op = "ETLPipeline.forward" /\ shapeCall.done
    /\ shapeCall.args = <<0, ProdPipeline.n_mfcc>>
    /\ shapeCall.average_by = "time"
    /\ shapeCall.out = <<1, 1, 52>>

\* C25: the transformers a pipeline TabularPreprocessor holds are the ones
\* loaded from the files under its own dirname, and constructing one whose
\* directory lacks a transformer file fails, whichever directories earlier
\* instances were constructed from.
C25_TransformersOfOwnDirname ==
    /\ \A obj \in instances :
         obj.class = "pipeline.TabularPreprocessor"
             => \A i \in 1..Len(obj.parts) :
                    obj.parts[i].path = _get_path(obj.dirname, TransformerFiles[i])
    /\ (lastCtor.class = "pipeline.TabularPreprocessor" /\ lastCtor.missing)
         => lastCtor.outcome # "ok"

(***************************************************************************)
(* Properties of the recorder and the convertor (SpecAudio)                *)
(***************************************************************************)
\* C26: get_audio hands audio back, on the upload path and on the record
\* path, only when the audio lasts at least the configured minimum; for
\* shorter audio it shows an error and returns no data.
C26_OnlyLongEnoughAudio ==
    audioCall.op = "get_audio" /\ audioCall.outcome = "returned" /\ audioCall.source # NoUpload
        => /\ audioCall.data = "audio" => audioCall.source.duration >= audioCall.min_duration
           /\ audioCall.source.duration < audioCall.min_duration
                => audioCall.data = "None" /\ audioCall.error_shown

\* C28: when AudioConvertor.__call__ has ended, by returning or by raising,
\* none of the temporary files it wrote is left under root_dir, and for a
\* source with a valid extension it wrote none.
C28_NoTemporaryFileLeft ==
    audioCall.op = "AudioConvertor.__call__"
        => /\ audioCall.wrote \cap rootDir = {}
           /\ check_format(audioCall.source.name) = "None" => audioCall.wrote = {}

\* C29: for every field of MultiLabelEncoder and every option the form
\* offers for it, encode(option) is the code the option has in that field's
\* own dictionary, code 0 and the labels two fields share included.
C29_EncodeGivesOwnFieldCode ==
    tabCall.op = "MultiLabelEncoder.encode" /\ tabCall.done
        => /\ tabCall.option \in DOMAIN MultiLabelFields[tabCall.field]
           /\ tabCall.out = <<MultiLabelFields[tabCall.field][tabCall.option]>>

\* "no" was encoded for the diabetic field, which comes after the yes/no
\* field that also knows it
C29_Witness ==
    /\ tabCall.op = "MultiLabelEncoder.encode" /\ tabCall.done
    /\ tabCall.field = 5 /\ tabCall.option = "no"
    /\ tabCall.out = <<0>>

====
